---- MODULE Spec2Model ----
(***************************************************************************)
(* Model of the Monkeytype Israel leaderboard service:                     *)
(*   - the Credential Store (keystore.json: byUser / byHash),              *)
(*   - the Profile Store (users.json: ordered list of profiles),           *)
(*   - the POST /join and POST /api/join handlers,                         *)
(*   - the background refresh timer (setInterval callback).                *)
(* Handlers are split at their await points that touch shared files, so    *)
(* that the interleavings of the single event loop are all explored.       *)
(***************************************************************************)
EXTENDS Integers, Sequences, FiniteSets, TLC

VARIABLES keystore, users, now, lastByKeyHash, join, sweep,
          joinsStarted, sweepsStarted, api, call

vars == <<keystore, users, now, lastByKeyHash, join, sweep,
          joinsStarted, sweepsStarted, api, call>>

(***************************************************************************)
(* Bounds of the model                                                     *)
(***************************************************************************)
MaxJoins == 2
MaxSweeps == 2
MaxTicks == 1
MaxInFlight == 2
MaxHandlers == 3
MaxApiCalls == 3
MaxBoard == 4
MinStatus == 100
MaxStatus == 599

(***************************************************************************)
(* Program constants                                                       *)
(***************************************************************************)
KEY_MIN_MS == 8000
MAX_KEY_LEN == 180
SLICE_LEN == 20
MIN_NAME_LEN == 3
MAX_NAME_LEN == 20
RETRIES == 3
MAX_WPM == 2000
MAX_ACC == 100
TARGET_MODE2 == 15

\* Date.now() when the process starts, and the time one Tick lets pass
StartMs == 10 * KEY_MIN_MS
TickMs == KEY_MIN_MS

Null == "<null>"

Reqs == 1..MaxInFlight
SweepIds == 1..MaxInFlight

(***************************************************************************)
(* Inputs                                                                  *)
(***************************************************************************)
RawUsernames == {"amy", "Amy", "bob", " bob ", "ab"}
RawKeys == {"k1", "k2", ""}
\* what fetchWithTimeout gives testApeKey: a response with a status, or a
\* throw (network failure, abort on timeout)
ProbeResponses ==
  {[threw |-> FALSE, status |-> n] : n \in {200, 204, 401, 470, 471, 472, 429, 503, 404}}
    \cup {[threw |-> TRUE, status |-> 0]}
FetchFail == [ok |-> FALSE, wpm15 |-> 0, accuracy |-> 0]
FetchResults == {[ok |-> TRUE, wpm15 |-> 80, accuracy |-> 95],
                 [ok |-> TRUE, wpm15 |-> 90, accuracy |-> 97],
                 FetchFail}
ApiUsernames == {"amy", "bob", " bob "}
ApiKeys == {"k1", "k2"}

(***************************************************************************)
(* String helpers (JavaScript String methods)                              *)
(***************************************************************************)
UpperAlpha == "ABCDEFGHIJKLMNOPQRSTUVWXYZ"
LowerAlpha == "abcdefghijklmnopqrstuvwxyz"
Digits == "0123456789"

CharAt(s, i) == SubSeq(s, i, i)

CharIn(c, alphabet) == \E i \in 1..Len(alphabet) : CharAt(alphabet, i) = c

LowerChar(c) ==
  IF CharIn(c, UpperAlpha)
    THEN CharAt(LowerAlpha, CHOOSE i \in 1..26 : CharAt(UpperAlpha, i) = c)
    ELSE c

RECURSIVE toLowerCase(_)
toLowerCase(s) ==
  IF Len(s) = 0 THEN ""
  ELSE LowerChar(CharAt(s, 1)) \o toLowerCase(SubSeq(s, 2, Len(s)))

RECURSIVE trimStart(_)
trimStart(s) ==
  IF Len(s) > 0 /\ CharAt(s, 1) = " " THEN trimStart(SubSeq(s, 2, Len(s))) ELSE s

RECURSIVE trimEnd(_)
trimEnd(s) ==
  IF Len(s) > 0 /\ CharAt(s, Len(s)) = " " THEN trimEnd(SubSeq(s, 1, Len(s) - 1)) ELSE s

trim(s) == trimEnd(trimStart(s))

slice(s, n) == IF Len(s) > n THEN SubSeq(s, 1, n) ELSE s

\* crypto sha256 hex digest: injective on the inputs of the model
sha256(s) == "sha256:" \o s

\* String(u || "").normalize("NFKC").trim().slice(0, 20); inputs are ASCII,
\* which NFKC leaves as it is
normalizeUsername(u) == slice(trim(u), SLICE_LEN)

\* /^[a-zA-Z0-9_-]{3,20}$/
validUsername(u) ==
  /\ Len(u) >= MIN_NAME_LEN
  /\ Len(u) <= MAX_NAME_LEN
  /\ \A i \in 1..Len(u) :
        \/ CharIn(CharAt(u, i), UpperAlpha)
        \/ CharIn(CharAt(u, i), LowerAlpha)
        \/ CharIn(CharAt(u, i), Digits)
        \/ CharAt(u, i) \in {"_", "-"}

(***************************************************************************)
(* Credential Store (lib/keystore.js)                                      *)
(***************************************************************************)
EmptyStore == [byUser |-> <<>>, byHash |-> <<>>]

\* obj[k] || null
Lookup(obj, k) == IF k \in DOMAIN obj /\ obj[k] # "" THEN obj[k] ELSE Null

Put(obj, k, v) == (k :> v) @@ obj

Remove(obj, k) == [x \in DOMAIN obj \ {k} |-> obj[x]]

\* upsertKey without the retraction of the old hash index entry
upsertKey_NoRetract(store, username, apeKey) ==
  [byUser |-> Put(store.byUser, trim(username), apeKey),
   byHash |-> Put(store.byHash, sha256(apeKey), trim(username))]

\* body of upsertKey between readStore and writeStore
upsertKey(store, username, apeKey) ==
  LET uname == trim(username)
      prev == Lookup(store.byUser, uname)
      retract == /\ prev # Null
                 /\ prev # apeKey
                 /\ Lookup(store.byHash, sha256(prev)) = uname
      hash1 == IF retract THEN Remove(store.byHash, sha256(prev)) ELSE store.byHash
  IN [byUser |-> Put(store.byUser, uname, apeKey),
      byHash |-> Put(hash1, sha256(apeKey), uname)]

getApeKey(store, username) == Lookup(store.byUser, trim(username))

\* a reverse lookup that never finds a bound username
findUsernameByKeyHash_Miss(store, keyHash) == Null

findUsernameByKeyHash(store, keyHash) == Lookup(store.byHash, keyHash)

\* body of setUsernameForKeyHash between readStore and writeStore
setUsernameForKeyHash(store, keyHash, username) ==
  [byUser |-> store.byUser, byHash |-> Put(store.byHash, keyHash, trim(username))]

\* a deletion that removes the reverse entry of the credential unguarded
deleteUserAndKey_Unguarded(store, username) ==
  LET uname == trim(username)
      prev == Lookup(store.byUser, uname)
  IN [byUser |-> Remove(store.byUser, uname),
      byHash |-> IF prev # Null THEN Remove(store.byHash, sha256(prev)) ELSE store.byHash]

\* deleteBinding of the specification: the forward entry goes, the reverse
\* entry goes only when it still points at this username
deleteUserAndKey(store, username) ==
  LET uname == trim(username)
      prev == Lookup(store.byUser, uname)
      drop == prev # Null /\ Lookup(store.byHash, sha256(prev)) = uname
  IN [byUser |-> Remove(store.byUser, uname),
      byHash |-> IF drop THEN Remove(store.byHash, sha256(prev)) ELSE store.byHash]

(***************************************************************************)
(* Profile Store (lib/store.js)                                            *)
(***************************************************************************)
\* users.findIndex(u => u.username.toLowerCase() === user.username.toLowerCase())
findIndex(list, username) ==
  LET hits == {i \in 1..Len(list) :
                 toLowerCase(list[i].username) = toLowerCase(username)}
  IN IF hits = {} THEN 0 ELSE CHOOSE i \in hits : \A k \in hits : i <= k

\* an upsert that appends whether or not an entry matches
upsertUser_AlwaysAppend(list, user) == Append(list, user)

\* body of upsertUser between loadUsers and saveUsers; the caller's object
\* always carries all five fields, so the merge replaces them all
upsertUser(list, user) ==
  LET idx == findIndex(list, user.username)
  IN IF idx > 0 THEN [list EXCEPT ![idx] = user] ELSE Append(list, user)

\* users.some(u => (u.username || "").trim().toLowerCase() === want)
usernameExists(list, siteUsername) ==
  LET want == toLowerCase(trim(siteUsername))
  IN \E i \in 1..Len(list) : toLowerCase(trim(list[i].username)) = want

Profile(username, mt, ts) ==
  [username |-> username, wpm15 |-> mt.wpm15, accuracy |-> mt.accuracy,
   timestamp |-> ts, country |-> "IL"]

(***************************************************************************)
(* Credential Validator (server.js testApeKey)                             *)
(***************************************************************************)
\* a validator that takes every answer but a 2xx for a rejected key
testApeKey_Strict(r) ==
  IF ~r.threw /\ r.status >= 200 /\ r.status <= 299
    THEN [t |-> "object", ok |-> "true", reason |-> "none"]
  ELSE [t |-> "object", ok |-> "false", reason |-> "unauthorized"]

\* the object testApeKey resolves to, for what the upstream request gave
testApeKey(r) ==
  IF r.threw
    THEN [t |-> "object", ok |-> "null", reason |-> "network"]
  ELSE IF r.status \in {401, 470, 471, 472}
    THEN [t |-> "object", ok |-> "false", reason |-> "unauthorized"]
  ELSE IF r.status >= 200 /\ r.status <= 299
    THEN [t |-> "object", ok |-> "true", reason |-> "none"]
  ELSE IF r.status = 429 \/ (r.status >= 500 /\ r.status <= 599)
    THEN [t |-> "object", ok |-> "null", reason |-> "temporary"]
  ELSE [t |-> "object", ok |-> "null", reason |-> "unexpected"]

\* !v.ok instead of !v : null and false both count as a failed probe
Not_OkField(v) == v.ok # "true"

\* JavaScript !v : an object is truthy whatever its fields hold
Not(v) == v.t # "object"

\* a window test that also refuses the request made exactly MIN_MS later
throttleKeyHash_Inclusive(map, keyHash, t) ==
  LET last == IF keyHash \in DOMAIN map THEN map[keyHash] ELSE 0
  IN ~(t - last <= KEY_MIN_MS)

\* throttleKeyHash: TRUE when the attempt is let through
throttleKeyHash(map, keyHash, t) ==
  LET last == IF keyHash \in DOMAIN map THEN map[keyHash] ELSE 0
  IN ~(t - last < KEY_MIN_MS)

(***************************************************************************)
(* Per-request and per-sweep records                                       *)
(***************************************************************************)
IdleJoin ==
  [pc |-> "idle", siteUsername |-> "", apeKey |-> "", keyHash |-> "",
   probe |-> "none", branch |-> "none", target |-> "",
   store |-> EmptyStore, usersL |-> <<>>,
   mt |-> FetchFail, ts |-> 0,
   outcome |-> "none", sessionUser |-> Null,
   alone |-> FALSE, preFwd |-> Null, preRev |-> Null, preExists |-> FALSE,
   wroteKeys |-> FALSE, wroteProfile |-> Null,
   trimmedLen |-> 0, touched |-> FALSE, called |-> FALSE, attempt |-> 0]

IdleSweep ==
  [pc |-> "idle", keep |-> <<>>, i |-> 0, key |-> Null,
   loaded |-> <<>>, alone |-> FALSE,
   probedInvalid |-> {}, probedIndet |-> {}, probedValid |-> {},
   fetchFailed |-> {}, fetched |-> {}, failed |-> FALSE]

\* a record is live from the start of its handler until its response is gone
JoinBusy(j) == j.pc # "idle"
SweepBusy(w) == w.pc # "idle"

AnyBusy == (\E q \in Reqs : JoinBusy(join[q])) \/ (\E w \in SweepIds : SweepBusy(sweep[w]))

InFlight ==
  Cardinality({q \in Reqs : JoinBusy(join[q])})
    + Cardinality({w \in SweepIds : SweepBusy(sweep[w])})

\* What a handler that runs alone has seen (alone, pre*, probe, probed*,
\* fetchFailed, fetched) is kept for as long as no other handler starts.
DisturbedJoins ==
  [q \in Reqs |->
     IF JoinBusy(join[q])
       THEN [join[q] EXCEPT !.alone = FALSE, !.preFwd = Null, !.preRev = Null,
                            !.preExists = FALSE, !.probe = "none"]
     ELSE join[q]]

DisturbedSweeps ==
  [w \in SweepIds |->
     IF SweepBusy(sweep[w])
       THEN [sweep[w] EXCEPT !.alone = FALSE, !.probedInvalid = {}, !.probedIndet = {},
                             !.probedValid = {}, !.fetchFailed = {}, !.fetched = {}]
     ELSE sweep[w]]

FreeJoinSlot(r) ==
  /\ ~JoinBusy(join[r])
  /\ \A q \in Reqs : q < r => JoinBusy(join[q])

FreeSweepSlot(w) ==
  /\ ~SweepBusy(sweep[w])
  /\ \A q \in SweepIds : q < w => SweepBusy(sweep[q])

\* a handler that returns without having sent any response
Finish_NoOutcome(j, outcome) ==
  [j EXCEPT !.pc = "done", !.outcome = "none",
            !.store = EmptyStore, !.usersL = <<>>,
            !.mt = FetchFail, !.ts = 0]

\* a handler that answers only after it has looked the key hash up
Finish_AfterLookup(j, outcome) ==
  [j EXCEPT !.pc = "done", !.outcome = outcome,
            !.store = EmptyStore, !.usersL = <<>>,
            !.mt = FetchFail, !.ts = 0, !.touched = TRUE]

\* response of a finished request; the transient locals are dropped
Finish(j, outcome) ==
  [j EXCEPT !.pc = "done", !.outcome = outcome,
            !.store = EmptyStore, !.usersL = <<>>,
            !.mt = FetchFail, !.ts = 0]

(***************************************************************************)
(* POST /join and POST /api/join                                           *)
(***************************************************************************)
\* region gate, shape validation and per-key throttle, up to the call of
\* testApeKey
JoinStart(r, admitted, rawUsername, rawKey) ==
  /\ FreeJoinSlot(r)
  /\ joinsStarted < MaxJoins
  /\ joinsStarted + sweepsStarted < MaxHandlers
  /\ InFlight < MaxInFlight
  /\ joinsStarted' = joinsStarted + 1
  /\ LET siteUsername == normalizeUsername(rawUsername)
         apeKey == trim(rawKey)
         keyHash == sha256(apeKey)
         seen == IF AnyBusy THEN IdleJoin
                 ELSE [IdleJoin EXCEPT
                         !.alone = TRUE,
                         !.preFwd = Lookup(keystore.byUser, siteUsername),
                         !.preRev = Lookup(keystore.byHash, keyHash),
                         !.preExists = usernameExists(users, siteUsername)]
         base == [seen EXCEPT !.siteUsername = siteUsername,
                              !.apeKey = apeKey,
                              !.keyHash = keyHash,
                              !.trimmedLen = Len(trim(rawUsername))]
         others == DisturbedJoins
     IN IF ~admitted
          THEN /\ join' = [others EXCEPT ![r] = Finish(base, "rejected(region)")]
               /\ UNCHANGED lastByKeyHash
        ELSE IF ~validUsername(siteUsername)
          THEN /\ join' = [others EXCEPT ![r] = Finish(base, "rejected(bad-input)")]
               /\ UNCHANGED lastByKeyHash
        ELSE IF apeKey = "" \/ Len(apeKey) > MAX_KEY_LEN
          THEN /\ join' = [others EXCEPT ![r] = Finish(base, "rejected(bad-input)")]
               /\ UNCHANGED lastByKeyHash
        ELSE IF ~throttleKeyHash(lastByKeyHash, keyHash, now)
          THEN /\ join' = [others EXCEPT ![r] = Finish(base, "throttled")]
               /\ UNCHANGED lastByKeyHash
        ELSE /\ join' = [others EXCEPT ![r] = [base EXCEPT !.pc = "probe"]]
             /\ lastByKeyHash' = Put(lastByKeyHash, keyHash, now)
  /\ sweep' = DisturbedSweeps
  /\ UNCHANGED <<keystore, users, now, sweepsStarted, api, call>>

\* const ok = await testApeKey(apeKey); if (!ok) return 400
JoinProbe(r, resp) ==
  /\ join[r].pc = "probe"
  /\ LET ok == testApeKey(resp)
         j == [join[r] EXCEPT !.probe = IF join[r].alone THEN ok.ok ELSE "none",
                              !.called = TRUE]
     IN join' = [join EXCEPT ![r] =
                   IF Not(ok) THEN Finish(j, "rejected(unauthorized)")
                   ELSE [j EXCEPT !.pc = "findBound"]]
  /\ UNCHANGED <<keystore, users, now, lastByKeyHash, sweep,
                 joinsStarted, sweepsStarted, api, call>>

\* (A) const boundUser = await findUsernameByKeyHash(keyHash)
JoinFindBound(r) ==
  /\ join[r].pc = "findBound"
  /\ LET boundUser == findUsernameByKeyHash(keystore, join[r].keyHash)
     IN join' = [join EXCEPT ![r] =
                   IF boundUser # Null
                     THEN [@ EXCEPT !.pc = "fetch", !.branch = "A", !.target = boundUser,
                                    !.touched = TRUE]
                   ELSE [@ EXCEPT !.pc = "usernameExists", !.touched = TRUE]]
  /\ UNCHANGED <<keystore, users, now, lastByKeyHash, sweep,
                 joinsStarted, sweepsStarted, api, call>>

\* (B) if (await usernameExists(siteUsername))
JoinUsernameExists(r) ==
  /\ join[r].pc = "usernameExists"
  /\ join' = [join EXCEPT ![r] =
                IF usernameExists(users, join[r].siteUsername)
                  THEN [@ EXCEPT !.pc = "getApeKey"]
                ELSE [@ EXCEPT !.pc = "upsertKeyRead"]]
  /\ UNCHANGED <<keystore, users, now, lastByKeyHash, sweep,
                 joinsStarted, sweepsStarted, api, call>>

\* (B) storedKey = await getApeKey(siteUsername); mismatch is 409
JoinGetApeKey(r) ==
  /\ join[r].pc = "getApeKey"
  /\ LET storedKey == getApeKey(keystore, join[r].siteUsername)
     IN join' = [join EXCEPT ![r] =
                   IF storedKey = Null \/ sha256(storedKey) # join[r].keyHash
                     THEN Finish(@, "rejected(conflict)")
                   ELSE [@ EXCEPT !.pc = "fetch", !.branch = "B",
                                  !.target = join[r].siteUsername]]
  /\ UNCHANGED <<keystore, users, now, lastByKeyHash, sweep,
                 joinsStarted, sweepsStarted, api, call>>

\* (C) upsertKey: readStore
JoinUpsertKeyRead(r) ==
  /\ join[r].pc = "upsertKeyRead"
  /\ join' = [join EXCEPT ![r] = [@ EXCEPT !.pc = "upsertKeyWrite", !.store = keystore]]
  /\ UNCHANGED <<keystore, users, now, lastByKeyHash, sweep,
                 joinsStarted, sweepsStarted, api, call>>

\* (C) upsertKey: mutate the copy read and writeStore it
JoinUpsertKeyWrite(r) ==
  /\ join[r].pc = "upsertKeyWrite"
  /\ keystore' = upsertKey(join[r].store, join[r].siteUsername, join[r].apeKey)
  /\ join' = [join EXCEPT ![r] = [@ EXCEPT !.pc = "setHashRead", !.store = EmptyStore,
                                            !.wroteKeys = TRUE]]
  /\ UNCHANGED <<users, now, lastByKeyHash, sweep, joinsStarted, sweepsStarted, api, call>>

\* (C) setUsernameForKeyHash: readStore
JoinSetHashRead(r) ==
  /\ join[r].pc = "setHashRead"
  /\ join' = [join EXCEPT ![r] = [@ EXCEPT !.pc = "setHashWrite", !.store = keystore]]
  /\ UNCHANGED <<keystore, users, now, lastByKeyHash, sweep,
                 joinsStarted, sweepsStarted, api, call>>

\* (C) setUsernameForKeyHash: writeStore
JoinSetHashWrite(r) ==
  /\ join[r].pc = "setHashWrite"
  /\ keystore' = setUsernameForKeyHash(join[r].store, join[r].keyHash, join[r].siteUsername)
  /\ join' = [join EXCEPT ![r] = [@ EXCEPT !.pc = "fetch", !.branch = "C",
                                            !.target = join[r].siteUsername,
                                            !.store = EmptyStore]]
  /\ UNCHANGED <<users, now, lastByKeyHash, sweep, joinsStarted, sweepsStarted, api, call>>

\* the attempt of refreshOne that returns, 0 when all of them throw
FirstOk(mts) ==
  LET good == {n \in 1..RETRIES : mts[n].ok}
  IN IF good = {} THEN 0 ELSE CHOOSE n \in good : \A m \in good : n <= m

\* a refresh whose last failure is swallowed: the handler logs the user in
JoinFetch_Swallow(r, mts) ==
  /\ join[r].pc = "fetch"
  /\ join' = [join EXCEPT ![r] =
                IF FirstOk(mts) = 0
                  THEN Finish([@ EXCEPT !.sessionUser = join[r].target],
                              IF join[r].branch = "C" THEN "success(created)"
                              ELSE "success(relogin)")
                ELSE [@ EXCEPT !.pc = "upsertUserLoad", !.mt = mts[FirstOk(mts)],
                               !.ts = now]]
  /\ UNCHANGED <<keystore, users, now, lastByKeyHash, sweep,
                 joinsStarted, sweepsStarted, api, call>>

\* refreshOne: for (const backoff of [0, 400, 900]) fetchMonkeytype15s(target,
\* apeKey), up to the first attempt that succeeds; mts[n] is what the n-th
\* attempt would get. The last failure is rethrown and caught by the handler.
JoinFetch(r, mts) ==
  /\ join[r].pc = "fetch"
  /\ join' = [join EXCEPT ![r] =
                IF FirstOk(mts) = 0
                  THEN Finish(@, "error(server)")
                ELSE [@ EXCEPT !.pc = "upsertUserLoad", !.mt = mts[FirstOk(mts)],
                               !.ts = now]]
  /\ UNCHANGED <<keystore, users, now, lastByKeyHash, sweep,
                 joinsStarted, sweepsStarted, api, call>>

\* refreshOne: upsertUser: loadUsers
JoinUpsertUserLoad(r) ==
  /\ join[r].pc = "upsertUserLoad"
  /\ join' = [join EXCEPT ![r] = [@ EXCEPT !.pc = "upsertUserSave", !.usersL = users]]
  /\ UNCHANGED <<keystore, users, now, lastByKeyHash, sweep,
                 joinsStarted, sweepsStarted, api, call>>

\* refreshOne: upsertUser: saveUsers; then loginWithRegen and the response
JoinUpsertUserSave(r) ==
  /\ join[r].pc = "upsertUserSave"
  /\ users' = upsertUser(join[r].usersL,
                         Profile(join[r].target, join[r].mt, join[r].ts))
  /\ join' = [join EXCEPT ![r] =
                Finish([@ EXCEPT !.sessionUser = join[r].target,
                                 !.wroteProfile = join[r].target],
                       IF join[r].branch = "C" THEN "success(created)"
                       ELSE "success(relogin)")]
  /\ UNCHANGED <<keystore, now, lastByKeyHash, sweep, joinsStarted, sweepsStarted, api, call>>

\* the response has been delivered; the locals of the request are gone
JoinReturn(r) ==
  /\ join[r].pc = "done"
  /\ join' = [join EXCEPT ![r] = IdleJoin]
  /\ UNCHANGED <<keystore, users, now, lastByKeyHash, sweep,
                 joinsStarted, sweepsStarted, api, call>>

(***************************************************************************)
(* Background refresh (setInterval callback)                               *)
(***************************************************************************)
\* continue / end of one loop iteration
NextUser(w) ==
  IF w.i + 1 > Len(w.loaded)
    THEN [w EXCEPT !.pc = "saveUsers", !.i = w.i + 1, !.key = Null]
  ELSE [w EXCEPT !.pc = "getApeKey", !.i = w.i + 1, !.key = Null]

\* the timer fires: const users = await loadUsers(); const keep = []
SweepStart(w) ==
  /\ FreeSweepSlot(w)
  /\ sweepsStarted < MaxSweeps
  /\ joinsStarted + sweepsStarted < MaxHandlers
  /\ InFlight < MaxInFlight
  /\ sweepsStarted' = sweepsStarted + 1
  /\ sweep' = [DisturbedSweeps EXCEPT ![w] =
                 [IdleSweep EXCEPT !.alone = ~AnyBusy,
                                   !.loaded = users,
                                   !.i = 1,
                                   !.pc = IF Len(users) = 0 THEN "saveUsers"
                                          ELSE "getApeKey"]]
  /\ join' = DisturbedJoins
  /\ UNCHANGED <<keystore, users, now, lastByKeyHash, joinsStarted, api, call>>

\* a loop body without the "if (!key) continue" guard
SweepGetApeKey_NoSkip(w) ==
  /\ sweep[w].pc = "getApeKey"
  /\ LET key == getApeKey(keystore, sweep[w].loaded[sweep[w].i].username)
     IN sweep' = [sweep EXCEPT ![w] = [@ EXCEPT !.pc = "testApeKey", !.key = key]]
  /\ UNCHANGED <<keystore, users, now, lastByKeyHash, join,
                 joinsStarted, sweepsStarted, api, call>>

\* const key = await getApeKey(u.username); if (!key) continue
SweepGetApeKey(w) ==
  /\ sweep[w].pc = "getApeKey"
  /\ LET key == getApeKey(keystore, sweep[w].loaded[sweep[w].i].username)
     IN sweep' = [sweep EXCEPT ![w] =
                    IF key = Null THEN NextUser(@)
                    ELSE [@ EXCEPT !.pc = "testApeKey", !.key = key]]
  /\ UNCHANGED <<keystore, users, now, lastByKeyHash, join,
                 joinsStarted, sweepsStarted, api, call>>

\* const valid = await testApeKey(key); if (!valid) { deleteUserAndKey; continue }
SweepTestApeKey(w, resp) ==
  /\ sweep[w].pc = "testApeKey"
  /\ LET valid == testApeKey(resp)
         name == sweep[w].loaded[sweep[w].i].username
         mine == IF sweep[w].alone THEN {name} ELSE {}
         seen == [sweep[w] EXCEPT
                    !.probedInvalid = IF valid.ok = "false" THEN @ \cup mine ELSE @,
                    !.probedIndet = IF valid.ok = "null" THEN @ \cup mine ELSE @,
                    !.probedValid = IF valid.ok = "true" THEN @ \cup mine ELSE @]
     IN IF Not(valid)
          THEN /\ keystore' = deleteUserAndKey(keystore, name)
               /\ sweep' = [sweep EXCEPT ![w] = NextUser(seen)]
        ELSE /\ keystore' = keystore
             /\ sweep' = [sweep EXCEPT ![w] = [seen EXCEPT !.pc = "fetch"]]
  /\ UNCHANGED <<users, now, lastByKeyHash, join, joinsStarted, sweepsStarted, api, call>>

\* a loop body that saves the list after every refreshed profile
SweepFetch_SaveEach(w, mt) ==
  /\ sweep[w].pc = "fetch"
  /\ LET u == sweep[w].loaded[sweep[w].i]
         apeKey == getApeKey(keystore, u.username)
         mine == IF sweep[w].alone THEN {u.username} ELSE {}
         good == apeKey # Null /\ mt.ok
         keep == Append(sweep[w].keep, Profile(u.username, mt, now))
     IN /\ sweep' = [sweep EXCEPT ![w] =
                       IF ~good THEN NextUser([@ EXCEPT !.fetchFailed = @ \cup mine])
                       ELSE NextUser([@ EXCEPT !.keep = keep, !.fetched = @ \cup mine])]
        /\ users' = IF good THEN keep ELSE users
  /\ UNCHANGED <<keystore, now, lastByKeyHash, join,
                 joinsStarted, sweepsStarted, api, call>>

\* sleep(120); const mt = await fetchMonkeytype15s(u.username), which reads
\* the key again and throws without one; a throw lands in the inner catch
\* and the profile is not pushed to keep
SweepFetch(w, mt) ==
  /\ sweep[w].pc = "fetch"
  /\ LET u == sweep[w].loaded[sweep[w].i]
         apeKey == getApeKey(keystore, u.username)
         mine == IF sweep[w].alone THEN {u.username} ELSE {}
     IN sweep' = [sweep EXCEPT ![w] =
                    IF apeKey = Null
                      THEN NextUser([@ EXCEPT !.fetchFailed = @ \cup mine])
                    ELSE IF ~mt.ok
                      THEN NextUser([@ EXCEPT !.fetchFailed = @ \cup mine])
                    ELSE NextUser([@ EXCEPT
                           !.keep = Append(@, Profile(u.username, mt, now)),
                           !.fetched = @ \cup mine])]
  /\ UNCHANGED <<keystore, users, now, lastByKeyHash, join,
                 joinsStarted, sweepsStarted, api, call>>

\* a save that re-reads the list and keeps what was added since the load
SweepSaveUsers_Merge(w) ==
  /\ sweep[w].pc = "saveUsers"
  /\ LET Added(p) == \A i \in 1..Len(sweep[w].loaded) :
                        sweep[w].loaded[i].username # p.username
     IN users' = sweep[w].keep \o SelectSeq(users, Added)
  /\ sweep' = [sweep EXCEPT ![w] = [@ EXCEPT !.pc = "done"]]
  /\ UNCHANGED <<keystore, now, lastByKeyHash, join, joinsStarted, sweepsStarted, api, call>>

\* await saveUsers(keep)
SweepSaveUsers(w) ==
  /\ sweep[w].pc = "saveUsers"
  /\ users' = sweep[w].keep
  /\ sweep' = [sweep EXCEPT ![w] = [@ EXCEPT !.pc = "done"]]
  /\ UNCHANGED <<keystore, now, lastByKeyHash, join, joinsStarted, sweepsStarted, api, call>>

\* the callback has returned
SweepReturn(w) ==
  /\ sweep[w].pc = "done"
  /\ sweep' = [sweep EXCEPT ![w] = IdleSweep]
  /\ UNCHANGED <<keystore, users, now, lastByKeyHash, join,
                 joinsStarted, sweepsStarted, api, call>>

\* wall-clock time passes (Date.now())
Tick ==
  /\ now < StartMs + MaxTicks * TickMs
  /\ now' = now + TickMs
  /\ UNCHANGED <<keystore, users, lastByKeyHash, join, sweep,
                 joinsStarted, sweepsStarted, api, call>>

(***************************************************************************)
(* The service                                                             *)
(***************************************************************************)
NoCall == [n |-> 0, op |-> "none", username |-> "", apeKey |-> "", before |-> EmptyStore]

\* no component is being called on its own
NoInput == [op |-> "none"]

Init ==
  /\ keystore = EmptyStore
  /\ users = <<>>
  /\ now = StartMs
  /\ lastByKeyHash = <<>>
  /\ join = [r \in Reqs |-> IdleJoin]
  /\ sweep = [w \in SweepIds |-> IdleSweep]
  /\ joinsStarted = 0
  /\ sweepsStarted = 0
  /\ api = NoCall
  /\ call = NoInput

Next ==
  \/ \E r \in Reqs, admitted \in BOOLEAN, u \in RawUsernames, k \in RawKeys :
        JoinStart(r, admitted, u, k)
  \/ \E r \in Reqs, resp \in ProbeResponses : JoinProbe(r, resp)
  \/ \E r \in Reqs : JoinFindBound(r)
  \/ \E r \in Reqs : JoinUsernameExists(r)
  \/ \E r \in Reqs : JoinGetApeKey(r)
  \/ \E r \in Reqs : JoinUpsertKeyRead(r)
  \/ \E r \in Reqs : JoinUpsertKeyWrite(r)
  \/ \E r \in Reqs : JoinSetHashRead(r)
  \/ \E r \in Reqs : JoinSetHashWrite(r)
  \/ \E r \in Reqs, mts \in [1..RETRIES -> FetchResults] : JoinFetch(r, mts)
  \/ \E r \in Reqs : JoinUpsertUserLoad(r)
  \/ \E r \in Reqs : JoinUpsertUserSave(r)
  \/ \E r \in Reqs : JoinReturn(r)
  \/ \E w \in SweepIds : SweepStart(w)
  \/ \E w \in SweepIds : SweepGetApeKey(w)
  \/ \E w \in SweepIds, resp \in ProbeResponses : SweepTestApeKey(w, resp)
  \/ \E w \in SweepIds, mt \in FetchResults : SweepFetch(w, mt)
  \/ \E w \in SweepIds : SweepSaveUsers(w)
  \/ \E w \in SweepIds : SweepReturn(w)
  \/ Tick

Spec == Init /\ [][Next]_vars

\* the same service when every handler runs to its end before the next starts
NextSeq ==
  \/ \E r \in Reqs, admitted \in BOOLEAN, u \in RawUsernames, k \in RawKeys :
        ~AnyBusy /\ JoinStart(r, admitted, u, k)
  \/ \E r \in Reqs, resp \in ProbeResponses : JoinProbe(r, resp)
  \/ \E r \in Reqs : JoinFindBound(r)
  \/ \E r \in Reqs : JoinUsernameExists(r)
  \/ \E r \in Reqs : JoinGetApeKey(r)
  \/ \E r \in Reqs : JoinUpsertKeyRead(r)
  \/ \E r \in Reqs : JoinUpsertKeyWrite(r)
  \/ \E r \in Reqs : JoinSetHashRead(r)
  \/ \E r \in Reqs : JoinSetHashWrite(r)
  \/ \E r \in Reqs, mts \in [1..RETRIES -> FetchResults] : JoinFetch(r, mts)
  \/ \E r \in Reqs : JoinUpsertUserLoad(r)
  \/ \E r \in Reqs : JoinUpsertUserSave(r)
  \/ \E r \in Reqs : JoinReturn(r)
  \/ \E w \in SweepIds : ~AnyBusy /\ SweepStart(w)
  \/ \E w \in SweepIds : SweepGetApeKey(w)
  \/ \E w \in SweepIds, resp \in ProbeResponses : SweepTestApeKey(w, resp)
  \/ \E w \in SweepIds, mt \in FetchResults : SweepFetch(w, mt)
  \/ \E w \in SweepIds : SweepSaveUsers(w)
  \/ \E w \in SweepIds : SweepReturn(w)
  \/ Tick

SpecSeq == Init /\ [][NextSeq]_vars

(***************************************************************************)
(* The join handlers alone, one request at a time, with usernames around   *)
(* the limits of the shape check                                           *)
(***************************************************************************)
ShapeUsernames ==
  {"abcdefghijklmnopqrstuvwxy", "abcdefghijklmnopqrst", " abcdefghijklmnopqrst ",
   "ab", "a b", "amy", "a_-9"}

NextShape ==
  \/ \E r \in Reqs, admitted \in BOOLEAN, u \in ShapeUsernames, k \in RawKeys :
        ~AnyBusy /\ JoinStart(r, admitted, u, k)
  \/ \E r \in Reqs, resp \in ProbeResponses : JoinProbe(r, resp)
  \/ \E r \in Reqs : JoinFindBound(r)
  \/ \E r \in Reqs : JoinUsernameExists(r)
  \/ \E r \in Reqs : JoinGetApeKey(r)
  \/ \E r \in Reqs : JoinUpsertKeyRead(r)
  \/ \E r \in Reqs : JoinUpsertKeyWrite(r)
  \/ \E r \in Reqs : JoinSetHashRead(r)
  \/ \E r \in Reqs : JoinSetHashWrite(r)
  \/ \E r \in Reqs, mts \in [1..RETRIES -> FetchResults] : JoinFetch(r, mts)
  \/ \E r \in Reqs : JoinUpsertUserLoad(r)
  \/ \E r \in Reqs : JoinUpsertUserSave(r)
  \/ \E r \in Reqs : JoinReturn(r)
  \/ Tick

SpecShape == Init /\ [][NextShape]_vars

(***************************************************************************)
(* The Credential Store driven directly through its exported operations    *)
(***************************************************************************)
ApiUpsertKey(username, apeKey) ==
  /\ api.n < MaxApiCalls
  /\ keystore' = upsertKey(keystore, username, apeKey)
  /\ api' = [n |-> api.n + 1, op |-> "upsertKey", username |-> username,
             apeKey |-> apeKey, before |-> keystore]
  /\ UNCHANGED <<users, now, lastByKeyHash, join, sweep, joinsStarted, sweepsStarted, call>>

ApiDeleteUserAndKey(username) ==
  /\ api.n < MaxApiCalls
  /\ keystore' = deleteUserAndKey(keystore, username)
  /\ api' = [n |-> api.n + 1, op |-> "deleteUserAndKey", username |-> username,
             apeKey |-> "", before |-> keystore]
  /\ UNCHANGED <<users, now, lastByKeyHash, join, sweep, joinsStarted, sweepsStarted, call>>

NextStore ==
  \/ \E u \in ApiUsernames, k \in ApiKeys : ApiUpsertKey(u, k)
  \/ \E u \in ApiUsernames : ApiDeleteUserAndKey(u)

SpecStore == Init /\ [][NextStore]_vars

(***************************************************************************)
(* Region Gate (lib/ip.js, two versions of the file)                       *)
(***************************************************************************)
GEO_TTL_MS == 10 * 60 * 1000
GEO_TTL_MS_OK == 10 * 60 * 1000
GEO_TTL_MS_NULL == 60 * 1000

StartsWith(s, prefix) ==
  Len(s) >= Len(prefix) /\ SubSeq(s, 1, Len(prefix)) = prefix

\* ip.replace(/^::ffff:/, "").trim()
normalizeIP(ip) ==
  trim(IF StartsWith(ip, "::ffff:") THEN SubSeq(ip, 8, Len(ip)) ELSE ip)

\* the last test is /^172\.(1[6-9]|2\d|3[0-1])\./
isPrivate(ip) ==
  \/ ip = "127.0.0.1"
  \/ ip = "::1"
  \/ StartsWith(ip, "10.")
  \/ StartsWith(ip, "192.168.")
  \/ /\ StartsWith(ip, "172.")
     /\ Len(ip) >= 7
     /\ CharAt(ip, 7) = "."
     /\ \/ CharAt(ip, 5) = "1" /\ CharIn(CharAt(ip, 6), "6789")
        \/ CharAt(ip, 5) = "2" /\ CharIn(CharAt(ip, 6), Digits)
        \/ CharAt(ip, 5) = "3" /\ CharIn(CharAt(ip, 6), "01")

\* ip.split(".")
RECURSIVE split(_, _)
split(s, cur) ==
  IF Len(s) = 0 THEN <<cur>>
  ELSE IF CharAt(s, 1) = "." THEN <<cur>> \o split(SubSeq(s, 2, Len(s)), "")
  ELSE split(SubSeq(s, 2, Len(s)), cur \o CharAt(s, 1))

\* /^\d+$/.test(p)
AllDigits(p) == Len(p) > 0 /\ \A i \in 1..Len(p) : CharIn(CharAt(p, i), Digits)

\* Number(p) of a string of digits
RECURSIVE Number(_)
Number(p) ==
  IF Len(p) = 0 THEN 0
  ELSE 10 * Number(SubSeq(p, 1, Len(p) - 1))
         + (CHOOSE d \in 0..9 : CharAt(Digits, d + 1) = CharAt(p, Len(p)))

\* the newer version only
isValidIp(ip) ==
  IF ip = "" THEN FALSE
  ELSE IF \E i \in 1..Len(ip) : CharAt(ip, i) = ":" THEN TRUE
  ELSE LET parts == split(ip, "")
       IN /\ Len(parts) = 4
          /\ \A i \in 1..4 : AllDigits(parts[i]) /\ Number(parts[i]) <= 255

\* cfCountry && /^[A-Z]{2}$/.test(cfCountry); an absent header is Null
ValidCountryHeader(h) ==
  /\ h # Null
  /\ Len(h) = 2
  /\ CharIn(CharAt(h, 1), UpperAlpha)
  /\ CharIn(CharAt(h, 2), UpperAlpha)

NoCache == [hit |-> FALSE, country |-> Null, age |-> 0]
Cached(country, age) == [hit |-> TRUE, country |-> country, age |-> age]

\* what geoIpapi / geoIpwho come back with: a throw, or a country or null
GeoThrew == [threw |-> TRUE, country |-> Null]
GeoAnswer(country) == [threw |-> FALSE, country |-> country]

\* try { country = await geoIpapi(ip) } catch {}
\* if (!country) { try { country = await geoIpwho(ip) } catch {} }
Failover(req) ==
  LET first == IF req.ipapi.threw THEN Null ELSE req.ipapi.country
  IN IF first # Null THEN first
     ELSE IF req.ipwho.threw THEN Null ELSE req.ipwho.country

\* lib/ip.js getIPCountry
getIPCountry(req) ==
  LET ip == normalizeIP(req.ip)
  IN IF ip = "" THEN Null
     ELSE IF ValidCountryHeader(req.cfCountry) THEN req.cfCountry
     ELSE IF req.cache.hit /\ req.cache.age < GEO_TTL_MS THEN req.cache.country
     ELSE Failover(req)

\* the newer version of getIPCountry: isValidIp, and a shorter life for a
\* cached null
getIPCountry_hardened(req) ==
  LET ip == normalizeIP(req.ip)
      ttl == IF req.cache.country # Null THEN GEO_TTL_MS_OK ELSE GEO_TTL_MS_NULL
  IN IF ip = "" \/ ~isValidIp(ip) THEN Null
     ELSE IF ValidCountryHeader(req.cfCountry) THEN req.cfCountry
     ELSE IF req.cache.hit /\ req.cache.age < ttl THEN req.cache.country
     ELSE Failover(req)

\* isIsraelIP, the same in both versions, with the country its getIPCountry
\* gives; req.ip is what getClientIP returned
isIsraelIP(req, country) ==
  IF ~req.production /\ isPrivate(req.ip) THEN TRUE
  ELSE country = "IL"

ClientIPs ==
  {"", "127.0.0.1", "::1", "10.1.2.3", "192.168.0.9", "172.16.0.1", "172.32.0.1",
   "8.8.8.8", "999.1.1.1", "1.2.3", "2001:db8::1"}
CountryHeaders == {Null, "IL", "US", "il"}
GeoCaches ==
  {NoCache, Cached("IL", 5 * 60 * 1000), Cached("IL", 15 * 60 * 1000),
   Cached(Null, 30 * 1000), Cached(Null, 5 * 60 * 1000), Cached("US", 30 * 1000)}
GeoAnswers == {GeoThrew, GeoAnswer(Null), GeoAnswer("IL"), GeoAnswer("US")}

GateRequests ==
  [production : BOOLEAN, ip : ClientIPs, cfCountry : CountryHeaders,
   cache : GeoCaches, ipapi : GeoAnswers, ipwho : GeoAnswers]

CallIsIsraelIP ==
  /\ call.op = "gate"
  /\ call' = [op |-> "gated", req |-> call.req,
               allowed |-> isIsraelIP(call.req, getIPCountry(call.req))]
  /\ UNCHANGED <<keystore, users, now, lastByKeyHash, join, sweep,
                 joinsStarted, sweepsStarted, api>>

CallIsIsraelIPHardened ==
  /\ call.op = "gate"
  /\ call' = [op |-> "gatedHardened", req |-> call.req,
               allowed |-> isIsraelIP(call.req, getIPCountry_hardened(call.req))]
  /\ UNCHANGED <<keystore, users, now, lastByKeyHash, join, sweep,
                 joinsStarted, sweepsStarted, api>>

\* const allowed = await isIsraelIP(req); if (!allowed) return 403; ...
GateJoin(r, rawUsername, rawKey) ==
  /\ call.op \in {"gated", "gatedHardened"}
  /\ joinsStarted = 0
  /\ JoinStart(r, call.allowed, rawUsername, rawKey)

InitGate ==
  /\ keystore = EmptyStore
  /\ users = <<>>
  /\ now = StartMs
  /\ lastByKeyHash = <<>>
  /\ join = [r \in Reqs |-> IdleJoin]
  /\ sweep = [w \in SweepIds |-> IdleSweep]
  /\ joinsStarted = 0
  /\ sweepsStarted = 0
  /\ api = NoCall
  /\ call \in [op : {"gate"}, req : GateRequests]

NextGate ==
  \/ CallIsIsraelIP
  \/ CallIsIsraelIPHardened
  \/ \E r \in Reqs, u \in ApiUsernames, k \in ApiKeys : GateJoin(r, u, k)

SpecGate == InitGate /\ [][NextGate]_vars

(***************************************************************************)
(* The Credential Validator called on every HTTP status and on a failed    *)
(* request, and what the two callers make of its answer                    *)
(***************************************************************************)
\* a response of any status, or fetchWithTimeout rejecting (network failure,
\* abort after 6 s)
ProbeInputs ==
  {[threw |-> FALSE, status |-> n] : n \in MinStatus..MaxStatus}
    \cup {[threw |-> TRUE, status |-> 0]}

CallTestApeKey ==
  /\ call.op = "probe"
  /\ call' = [op |-> "probed", resp |-> call.resp, v |-> testApeKey(call.resp),
               refused |-> FALSE]
  /\ UNCHANGED <<keystore, users, now, lastByKeyHash, join, sweep,
                 joinsStarted, sweepsStarted, api>>

\* join: if (!ok) return res.status(400)
JoinUse ==
  /\ call.op = "probed"
  /\ call' = [call EXCEPT !.op = "joinUsed", !.refused = Not(call.v)]
  /\ UNCHANGED <<keystore, users, now, lastByKeyHash, join, sweep,
                 joinsStarted, sweepsStarted, api>>

\* sweep: if (!valid) { await deleteUserAndKey(u.username); continue; }
SweepUse ==
  /\ call.op = "probed"
  /\ call' = [call EXCEPT !.op = "sweepUsed", !.refused = Not(call.v)]
  /\ UNCHANGED <<keystore, users, now, lastByKeyHash, join, sweep,
                 joinsStarted, sweepsStarted, api>>

InitProbe ==
  /\ keystore = EmptyStore
  /\ users = <<>>
  /\ now = StartMs
  /\ lastByKeyHash = <<>>
  /\ join = [r \in Reqs |-> IdleJoin]
  /\ sweep = [w \in SweepIds |-> IdleSweep]
  /\ joinsStarted = 0
  /\ sweepsStarted = 0
  /\ api = NoCall
  /\ call \in [op : {"probe"}, resp : ProbeInputs]

NextProbe == CallTestApeKey \/ JoinUse \/ SweepUse

SpecProbe == InitProbe /\ [][NextProbe]_vars

(***************************************************************************)
(* Upstream Score Client (lib/monkeytype.js, two versions of the file)     *)
(* Upstream numbers are kept in thousandths; a value that Number() turns   *)
(* into NaN has num = FALSE. Scores come out as integers, accuracies in    *)
(* hundredths of a percent.                                                *)
(***************************************************************************)
Milli == 10 * 10 * 10

Num(x) == [num |-> TRUE, m |-> x]
NaN == [num |-> FALSE, m |-> 0]

Min(a, b) == IF a < b THEN a ELSE b
Max(a, b) == IF a > b THEN a ELSE b

\* Math.round of a value in thousandths: the nearest integer, halves up
MathRound(m) == (m + Milli \div 2) \div Milli

\* Math.round(x * 100) of a value in thousandths, i.e. x in hundredths
MathRound100(m) == (m + 5) \div 10

\* lib/monkeytype.js: Math.round(Number(n) || 0)
round0(n) == MathRound(IF n.num THEN n.m ELSE 0)

\* lib/monkeytype.js: Math.round((Number(n) || 0) * 100) / 100
round2(n) == MathRound100(IF n.num THEN n.m ELSE 0)

\* the other version of the file: clampNum, in thousandths
clampNum(n, min, max) == IF ~n.num THEN 0 ELSE Min(max, Max(min, n.m))

round0_clamped(n) == MathRound(clampNum(n, 0, MAX_WPM * Milli))

round2_clamped(n) == MathRound100(clampNum(n, 0, MAX_ACC * Milli))

\* entries the upstream can send; null is NoEntry, a missing field is NaN
NoEntry == [mode |-> Null, mode2 |-> 0, wpm |-> NaN, acc |-> NaN]
Entry(mode, mode2, wpm, acc) == [mode |-> mode, mode2 |-> mode2, wpm |-> wpm, acc |-> acc]

eGood == Entry("time", TARGET_MODE2, Num(80500), Num(95126))
eSlow == Entry("time", TARGET_MODE2, Num(61000), Num(99000))
eOther == Entry("time", 4 * TARGET_MODE2, Num(120000), Num(98000))
eNeg == Entry("time", TARGET_MODE2, Num(-5000), Num(150000))
eBig == Entry("time", TARGET_MODE2, Num(5000000), NaN)
eNaN == Entry("time", TARGET_MODE2, NaN, Num(-1000))

Threw == [threw |-> TRUE, status |-> 0, body |-> <<>>]
Status(n) == [threw |-> FALSE, status |-> n, body |-> <<>>]
Ok(body) == [threw |-> FALSE, status |-> 200, body |-> body]

IsOk(r) == ~r.threw /\ r.status >= 200 /\ r.status <= 299

\* answers of /users/personalBests?mode=time&mode2=15 (body: the array)
PbResponses ==
  {Ok(<<>>), Ok(<<eSlow, eGood>>), Ok(<<eGood, eOther, eSlow>>), Ok(<<eOther>>),
   Ok(<<eNeg>>), Ok(<<eBig>>), Status(401), Status(472), Status(503), Threw}

\* answers of /results/last (body: the one result, or nothing)
LastResponses ==
  {Ok(<<>>), Ok(<<eGood>>), Ok(<<eOther>>), Ok(<<eNeg>>), Ok(<<eBig>>), Ok(<<eNaN>>),
   Status(503), Threw}

\* answers of /results?limit=50 (body: the list)
RecentResponses ==
  {Ok(<<>>), Ok(<<eOther, eSlow, eGood>>), Ok(<<eOther>>), Status(429), Threw}

Matches15s(e) == e.mode = "time" /\ e.mode2 = TARGET_MODE2

Found(wpm15, accuracy, calls) ==
  [ok |-> TRUE, wpm15 |-> wpm15, accuracy |-> accuracy, calls |-> calls]
NotFound(calls) ==
  [ok |-> FALSE, wpm15 |-> 0, accuracy |-> 0, calls |-> calls]

\* list.find(r => r?.mode === "time" && Number(r?.mode2) === 15)
find15s(list) ==
  LET hits == {i \in 1..Len(list) : Matches15s(list[i])}
  IN IF hits = {} THEN NoEntry ELSE list[CHOOSE i \in hits : \A k \in hits : i <= k]

\* lib/monkeytype.js: arr.reduce((a, b) => Number(b.wpm) > Number(a?.wpm || 0) ? b : a, null)
RECURSIVE reduceBest(_, _)
reduceBest(arr, a) ==
  IF arr = <<>> THEN a
  ELSE LET b == arr[1]
           aw == IF a.wpm.num THEN a.wpm.m ELSE 0
       IN reduceBest(Tail(arr), IF b.wpm.num /\ b.wpm.m > aw THEN b ELSE a)

\* the other version: pickBest15s
RECURSIVE pickBest15s_from(_, _)
pickBest15s_from(entries, best) ==
  IF entries = <<>> THEN best
  ELSE LET e == entries[1]
           take == /\ Matches15s(e)
                   /\ e.wpm.num
                   /\ (best = NoEntry \/ (best.wpm.num /\ e.wpm.m > best.wpm.m))
       IN pickBest15s_from(Tail(entries), IF take THEN e ELSE best)

pickBest15s(entries) == pickBest15s_from(entries, NoEntry)

\* steps 2 and 3, the same in both versions but for the rounding helpers
\* (clamped: those of the version with clampNum)
LastAndRecent(up, calls, clamped) ==
  LET d == IF IsOk(up.last) /\ up.last.body # <<>> THEN up.last.body[1] ELSE NoEntry
      calls2 == Append(calls, "last")
      match == IF IsOk(up.recent) THEN find15s(up.recent.body) ELSE NoEntry
      calls3 == Append(calls2, "recent")
      r0(n) == IF clamped THEN round0_clamped(n) ELSE round0(n)
      r2(n) == IF clamped THEN round2_clamped(n) ELSE round2(n)
  IN IF Matches15s(d) THEN Found(r0(d.wpm), r2(d.acc), calls2)
     ELSE IF match # NoEntry THEN Found(r0(match.wpm), r2(match.acc), calls3)
     ELSE NotFound(calls3)

\* lib/monkeytype.js fetchMonkeytype15s, called with a key; up.pb[1] is the
\* answer of the one personal-bests request
fetchMonkeytype15s(up) ==
  LET pbR == up.pb[1]
      best == reduceBest(pbR.body, NoEntry)
  IN IF IsOk(pbR) /\ pbR.body # <<>>
       THEN Found(round0(best.wpm), round2(best.acc), <<"pb">>)
     ELSE LastAndRecent(up, <<"pb">>, FALSE)

\* the other version, step 1: for (const delay of [0, 400, 900]) with the
\* k-th request answered by up.pb[k]; a throw inside the try, the one of the
\* 401 branch included, lands in the catch and continues the loop
RECURSIVE PbLoop(_, _, _)
PbLoop(up, k, calls) ==
  IF k > RETRIES THEN LastAndRecent(up, calls, TRUE)
  ELSE LET pbR == up.pb[k]
           calls1 == Append(calls, "pb")
           best == pickBest15s(pbR.body)
       IN IF pbR.threw THEN PbLoop(up, k + 1, calls1)
          ELSE IF IsOk(pbR)
            THEN IF best # NoEntry
                   THEN Found(round0_clamped(best.wpm), round2_clamped(best.acc), calls1)
                 ELSE LastAndRecent(up, calls1, TRUE)
          ELSE IF pbR.status \in {401, 470, 471, 472}
            THEN PbLoop(up, k + 1, calls1)
          ELSE LastAndRecent(up, calls1, TRUE)

fetchMonkeytype15s_retrying(up) == PbLoop(up, 1, <<>>)

\* what the upstream will answer to one call of the client
Upstreams ==
  [pb : [1..RETRIES -> PbResponses], last : LastResponses, recent : RecentResponses]

CallFetch ==
  /\ call.op = "fetch"
  /\ call' = [op |-> "fetched", up |-> call.up, mt |-> fetchMonkeytype15s(call.up)]
  /\ UNCHANGED <<keystore, users, now, lastByKeyHash, join, sweep,
                 joinsStarted, sweepsStarted, api>>

CallFetchRetrying ==
  /\ call.op = "fetch"
  /\ call' = [op |-> "fetchedRetrying", up |-> call.up,
               mt |-> fetchMonkeytype15s_retrying(call.up)]
  /\ UNCHANGED <<keystore, users, now, lastByKeyHash, join, sweep,
                 joinsStarted, sweepsStarted, api>>

InitFetch ==
  /\ keystore = EmptyStore
  /\ users = <<>>
  /\ now = StartMs
  /\ lastByKeyHash = <<>>
  /\ join = [r \in Reqs |-> IdleJoin]
  /\ sweep = [w \in SweepIds |-> IdleSweep]
  /\ joinsStarted = 0
  /\ sweepsStarted = 0
  /\ api = NoCall
  /\ call \in [op : {"fetch"}, up : Upstreams]

NextFetch == CallFetch \/ CallFetchRetrying

SpecFetch == InitFetch /\ [][NextFetch]_vars

(***************************************************************************)
(* GET /api/leaderboard over a Profile Store of up to MaxBoard profiles     *)
(***************************************************************************)
BoardProfiles ==
  {[username |-> "A", wpm15 |-> 80, accuracy |-> 95, timestamp |-> 1, country |-> "IL"],
   [username |-> "B", wpm15 |-> 80, accuracy |-> 97, timestamp |-> 2, country |-> "IL"],
   [username |-> "C", wpm15 |-> 90, accuracy |-> 90, timestamp |-> 3, country |-> "IL"],
   [username |-> "D", wpm15 |-> 80, accuracy |-> 95, timestamp |-> 4, country |-> "IL"],
   [username |-> "E", wpm15 |-> 99, accuracy |-> 99, timestamp |-> 5, country |-> "US"],
   [username |-> "F", wpm15 |-> 85, accuracy |-> 92, timestamp |-> 6, country |-> Null]}

\* the lists upsertUser and saveUsers can leave: one profile per username
BoardLists ==
  {l \in UNION {[1..n -> BoardProfiles] : n \in 0..MaxBoard} :
     \A i, k \in 1..Len(l) : l[i].username = l[k].username => i = k}

\* (u.country || "IL") === "IL"; a profile without the field gives undefined
IsIL(u) == (IF u.country = Null THEN "IL" ELSE u.country) = "IL"

\* a comparator that looks at the score only
cmp_ScoreOnly(a, b) == b.wpm15 - a.wpm15

\* the comparator handed to ilUsers.sort
cmp(a, b) ==
  IF b.wpm15 # a.wpm15 THEN b.wpm15 - a.wpm15
  ELSE IF b.accuracy # a.accuracy THEN b.accuracy - a.accuracy
  ELSE b.timestamp - a.timestamp

\* Array.prototype.sort is stable: an element goes behind every element
\* placed before it that the comparator does not put after it
InsertSorted(sorted, x) ==
  LET pos == Cardinality({i \in 1..Len(sorted) : cmp(sorted[i], x) <= 0})
  IN SubSeq(sorted, 1, pos) \o <<x>> \o SubSeq(sorted, pos + 1, Len(sorted))

RECURSIVE sort(_)
sort(list) ==
  IF list = <<>> THEN <<>>
  ELSE InsertSorted(sort(SubSeq(list, 1, Len(list) - 1)), list[Len(list)])

\* the object each profile is mapped to in the response
BoardEntry(u) ==
  [username |-> u.username, wpm15 |-> u.wpm15, accuracy |-> u.accuracy,
   timestamp |-> u.timestamp]

leaderboard(list) ==
  LET ilUsers == sort(SelectSeq(list, IsIL))
  IN [i \in 1..Len(ilUsers) |-> BoardEntry(ilUsers[i])]

GetLeaderboard ==
  /\ call.op = "none"
  /\ call' = [op |-> "leaderboard", users |-> leaderboard(users)]
  /\ UNCHANGED <<keystore, users, now, lastByKeyHash, join, sweep,
                 joinsStarted, sweepsStarted, api>>

InitBoard ==
  /\ keystore = EmptyStore
  /\ users \in BoardLists
  /\ now = StartMs
  /\ lastByKeyHash = <<>>
  /\ join = [r \in Reqs |-> IdleJoin]
  /\ sweep = [w \in SweepIds |-> IdleSweep]
  /\ joinsStarted = 0
  /\ sweepsStarted = 0
  /\ api = NoCall
  /\ call = NoInput

NextBoard == GetLeaderboard

SpecBoard == InitBoard /\ [][NextBoard]_vars

(***************************************************************************)
(* Properties                                                              *)
(***************************************************************************)
\* a join that has answered and ran with no other handler in flight
JoinDoneAlone(r) == join[r].pc = "done" /\ join[r].alone

\* the join was admitted, well-formed and unthrottled: the validator answered
ReachedValidator(r) == join[r].probe # "none"

SweepDoneAlone(w) == sweep[w].pc = "done" /\ sweep[w].alone

HasProfile(list, username) == \E i \in 1..Len(list) : list[i].username = username

ReverseEntriesOf(store, username) ==
  {h \in DOMAIN store.byHash : store.byHash[h] = username}

\* C1 (as claimed): a join with a username whose forward binding holds
\* another credential, made with a credential bound to nobody, ends in
\* rejected(conflict) and writes neither store.
C1_AntiSquatting ==
  \A r \in Reqs :
    (/\ JoinDoneAlone(r)
     /\ ReachedValidator(r)
     /\ join[r].preFwd \notin {Null, join[r].apeKey}
     /\ join[r].preRev = Null)
    => /\ join[r].outcome = "rejected(conflict)"
       /\ ~join[r].wroteKeys
       /\ join[r].wroteProfile = Null

\* C2 (as claimed): a join with a credential reverse-bound to U and another
\* typed username V ends in success(relogin, U), with U's profile refreshed,
\* the session set to U and nothing created for V.
C2_AlwaysRelogin ==
  \A r \in Reqs :
    (/\ JoinDoneAlone(r)
     /\ ReachedValidator(r)
     /\ join[r].preRev \notin {Null, join[r].siteUsername})
    => /\ join[r].outcome = "success(relogin)"
       /\ join[r].sessionUser = join[r].preRev
       /\ join[r].wroteProfile = join[r].preRev
       /\ ~join[r].wroteKeys

\* C2 (amended): such a join ends in success(relogin, U) or, when every
\* attempt of the score fetch fails, in error(server). On success U's profile
\* is written and the session user is U; on error no profile is written and
\* no session is set. In both cases the Credential Store is not written and
\* no profile for V is written.
C2_CredentialAnchored ==
  \A r \in Reqs :
    (/\ JoinDoneAlone(r)
     /\ ReachedValidator(r)
     /\ join[r].preRev \notin {Null, join[r].siteUsername})
    => /\ join[r].outcome \in {"success(relogin)", "error(server)"}
       /\ join[r].outcome = "success(relogin)"
            => /\ join[r].sessionUser = join[r].preRev
               /\ join[r].wroteProfile = join[r].preRev
               /\ HasProfile(users, join[r].preRev)
       /\ join[r].outcome = "error(server)"
            => /\ join[r].sessionUser = Null
               /\ join[r].wroteProfile = Null
       /\ ~join[r].wroteKeys
       /\ Lookup(keystore.byUser, join[r].siteUsername) = join[r].preFwd
       /\ Lookup(keystore.byHash, join[r].keyHash) = join[r].preRev
       /\ ~join[r].preExists => ~HasProfile(users, join[r].siteUsername)

C2_Witness ==
  \E r \in Reqs :
    /\ JoinDoneAlone(r)
    /\ ReachedValidator(r)
    /\ join[r].preRev \notin {Null, join[r].siteUsername}
    /\ toLowerCase(join[r].preRev) # toLowerCase(join[r].siteUsername)
    /\ join[r].outcome = "success(relogin)"
    /\ join[r].sessionUser = join[r].preRev

\* C3 (as claimed): a join whose credential the validator classifies as
\* invalid ends in rejected(unauthorized) and writes neither store.
C3_InvalidRejected ==
  \A r \in Reqs :
    (JoinDoneAlone(r) /\ join[r].probe = "false")
    => /\ join[r].outcome = "rejected(unauthorized)"
       /\ ~join[r].wroteKeys
       /\ join[r].wroteProfile = Null

\* C4: when the validator answers indeterminate, a join with a well-formed
\* username that has no profile and no forward binding and a credential
\* that is not reverse-bound, whose score fetch succeeds, ends in
\* success(created, username) with forward binding, reverse binding and
\* profile written and the session set.
C4_FailOpen ==
  \A r \in Reqs :
    (/\ JoinDoneAlone(r)
     /\ join[r].probe = "null"
     /\ ~join[r].preExists
     /\ join[r].preFwd = Null
     /\ join[r].preRev = Null
     /\ join[r].outcome # "error(server)")
    => /\ join[r].outcome = "success(created)"
       /\ Lookup(keystore.byUser, join[r].siteUsername) = join[r].apeKey
       /\ Lookup(keystore.byHash, sha256(join[r].apeKey)) = join[r].siteUsername
       /\ HasProfile(users, join[r].siteUsername)
       /\ join[r].sessionUser = join[r].siteUsername

C4_Witness ==
  \E r \in Reqs :
    /\ JoinDoneAlone(r)
    /\ join[r].probe = "null"
    /\ ~join[r].preExists
    /\ join[r].preFwd = Null
    /\ join[r].preRev = Null
    /\ join[r].outcome = "success(created)"
    /\ HasProfile(users, join[r].siteUsername)

\* C5 (as claimed): after every upsertKey / deleteUserAndKey call, each
\* forward entry U -> C has the reverse entry hash(C) -> U, and no two
\* usernames hold credentials of the same hash.
C5_Bijection ==
  /\ \A u \in DOMAIN keystore.byUser :
        Lookup(keystore.byHash, sha256(keystore.byUser[u])) = u
  /\ \A u, v \in DOMAIN keystore.byUser :
        sha256(keystore.byUser[u]) = sha256(keystore.byUser[v]) => u = v

\* C6: when U is bound to C1 in both indices, upsertKey(U, C2) with C2 # C1
\* leaves hash(C1) without reverse entry, hash(C2) resolving to U and the
\* forward entry of U holding C2.
C6_RebindRetraction ==
  LET u == trim(api.username)
      c1 == Lookup(api.before.byUser, u)
  IN (/\ api.op = "upsertKey"
      /\ c1 \notin {Null, api.apeKey}
      /\ Lookup(api.before.byHash, sha256(c1)) = u)
     => /\ findUsernameByKeyHash(keystore, sha256(c1)) = Null
        /\ findUsernameByKeyHash(keystore, sha256(api.apeKey)) = u
        /\ getApeKey(keystore, u) = api.apeKey

C6_Witness ==
  LET u == trim(api.username)
      c1 == Lookup(api.before.byUser, u)
  IN /\ api.op = "upsertKey"
     /\ c1 \notin {Null, api.apeKey}
     /\ Lookup(api.before.byHash, sha256(c1)) = u
     /\ Lookup(keystore.byUser, u) = api.apeKey

\* C7 (as claimed): once a sweep has completed, every profile whose
\* credential it probed as invalid is gone from the Profile Store and its
\* username has neither forward nor reverse binding.
C7_SweepEviction ==
  \A w \in SweepIds :
    SweepDoneAlone(w) =>
      \A name \in sweep[w].probedInvalid :
        /\ ~HasProfile(users, name)
        /\ Lookup(keystore.byUser, trim(name)) = Null
        /\ ReverseEntriesOf(keystore, trim(name)) = {}

\* C8 (as claimed): a sweep that probed every loaded profile and got
\* indeterminate each time leaves the Profile Store as it loaded it and has
\* fetched no score.
C8_SweepPreservation ==
  \A w \in SweepIds :
    (/\ SweepDoneAlone(w)
     /\ sweep[w].loaded # <<>>
     /\ sweep[w].probedIndet = {sweep[w].loaded[i].username : i \in 1..Len(sweep[w].loaded)}
     /\ sweep[w].probedInvalid = {}
     /\ sweep[w].probedValid = {})
    => /\ users = sweep[w].loaded
       /\ sweep[w].fetched = {}

\* C9 (as claimed): a profile whose credential a sweep probed as valid and
\* whose score fetch failed is in the Profile Store after the sweep with the
\* values it had.
C9_KeptOnFetchFailure ==
  \A w \in SweepIds :
    SweepDoneAlone(w) =>
      \A i \in 1..Len(sweep[w].loaded) :
        (/\ sweep[w].loaded[i].username \in sweep[w].probedValid
         /\ sweep[w].loaded[i].username \in sweep[w].fetchFailed)
        => \E k \in 1..Len(users) : users[k] = sweep[w].loaded[i]

\* C10 (as claimed): at no time are two sweeps in flight; a sweep is in
\* flight from its loadUsers until its saveUsers has been executed.
C10_SweepSelfExclusion ==
  Cardinality({w \in SweepIds : sweep[w].pc \notin {"idle", "done"}}) <= 1

SevenOutcomes ==
  {"rejected(region)", "rejected(bad-input)", "rejected(unauthorized)",
   "rejected(conflict)", "success(relogin)", "success(created)", "error(server)"}

\* C11 (as claimed): every answered join carries one of the seven outcomes
\* of the workflow.
C11_SevenOutcomes ==
  \A r \in Reqs : join[r].pc = "done" => join[r].outcome \in SevenOutcomes

\* C11 (amended): every answered join carries exactly one outcome, which is
\* one of the seven outcomes of the workflow or throttled (429), the answer
\* of the per-credential throttle inside the handler; a join that has not
\* answered yet carries none.
C11_EightOutcomes ==
  \A r \in Reqs :
    /\ join[r].pc = "done" => join[r].outcome \in SevenOutcomes \cup {"throttled"}
    /\ join[r].pc # "done" => join[r].outcome = "none"

C11_Witness ==
  \E r \in Reqs :
    /\ join[r].pc = "done"
    /\ join[r].outcome = "throttled"
    /\ validUsername(join[r].siteUsername)
    /\ join[r].keyHash \in DOMAIN lastByKeyHash

\* C12: a join that ends in rejected(region) or rejected(bad-input) has
\* made no Credential Store or Profile Store access (read or write) and no
\* upstream call.
C12_RejectBeforeAccess ==
  \A r \in Reqs :
    (join[r].pc = "done"
       /\ join[r].outcome \in {"rejected(region)", "rejected(bad-input)"})
    => /\ ~join[r].touched
       /\ ~join[r].called
       /\ ~join[r].wroteKeys
       /\ join[r].wroteProfile = Null
       /\ join[r].sessionUser = Null

C12_Witness ==
  \E r \in Reqs :
    /\ join[r].pc = "done"
    /\ join[r].outcome = "rejected(bad-input)"
    /\ ~join[r].touched
    /\ users # <<>>
    /\ DOMAIN keystore.byUser # {}

\* C13 (as claimed): a join gets past the region gate and the shape check
\* only if the supplied username, normalized and trimmed, has 3 to 20
\* characters, all of [a-zA-Z0-9_-]; a longer one is rejected as bad input.
C13_UsernameShape ==
  \A r \in Reqs :
    /\ (JoinBusy(join[r])
          /\ join[r].outcome \notin {"rejected(region)", "rejected(bad-input)"})
       => /\ join[r].trimmedLen >= MIN_NAME_LEN
          /\ join[r].trimmedLen <= MAX_NAME_LEN
          /\ validUsername(join[r].siteUsername)
    /\ (join[r].pc = "done" /\ join[r].trimmedLen > MAX_NAME_LEN)
       => join[r].outcome \in {"rejected(region)", "rejected(bad-input)"}

\* no two entries of the list carry the same username, compared
\* case-insensitively
UniqueUsernames(list) ==
  \A i \in 1..Len(list) : \A k \in (i + 1)..Len(list) :
    toLowerCase(list[i].username) # toLowerCase(list[k].username)

\* C14: under every interleaving of join handlers and sweeps the Profile
\* Store holds at most one profile per username compared case-insensitively;
\* the upsert a join is about to save replaces the matching entry in place
\* when there is one and appends otherwise.
C14_ProfileUniqueness ==
  /\ UniqueUsernames(users)
  /\ \A r \in Reqs :
        join[r].pc = "upsertUserSave" =>
          LET user == Profile(join[r].target, join[r].mt, join[r].ts)
              old == join[r].usersL
              new == upsertUser(old, user)
              idx == findIndex(old, user.username)
          IN /\ UniqueUsernames(old) => UniqueUsernames(new)
             /\ idx > 0 => /\ Len(new) = Len(old)
                            /\ new[idx] = user
                            /\ \A i \in 1..Len(old) : i # idx => new[i] = old[i]
             /\ idx = 0 => new = Append(old, user)

C14_Witness ==
  \E r \in Reqs :
    /\ join[r].pc = "upsertUserSave"
    /\ findIndex(join[r].usersL, join[r].target) > 0
    /\ join[r].usersL[findIndex(join[r].usersL, join[r].target)].username # join[r].target
    /\ InFlight = MaxInFlight
    /\ users # join[r].usersL

Names(list) == [i \in 1..Len(list) |-> list[i].username]

\* C15: the leaderboard holds exactly the stored profiles of the admitted
\* region (a profile without region counts as admitted), each once, ordered
\* by score descending, then accuracy descending, then timestamp
\* descending; profiles A (80, 95), B (80, 97), C (90, 90) come out C, B, A.
C15_LeaderboardOrder ==
  call.op = "leaderboard" =>
    LET out == call.users
        admitted == {i \in 1..Len(users) : users[i].country \in {"IL", Null}}
    IN /\ Len(out) = Cardinality(admitted)
       /\ \A i \in admitted :
             Cardinality({k \in 1..Len(out) : out[k] = BoardEntry(users[i])}) = 1
       /\ \A k \in 1..Len(out) - 1 :
             \/ out[k].wpm15 > out[k + 1].wpm15
             \/ /\ out[k].wpm15 = out[k + 1].wpm15
                /\ out[k].accuracy > out[k + 1].accuracy
             \/ /\ out[k].wpm15 = out[k + 1].wpm15
                /\ out[k].accuracy = out[k + 1].accuracy
                /\ out[k].timestamp >= out[k + 1].timestamp
       /\ Names(users) = <<"A", "B", "C">> => Names(out) = <<"C", "B", "A">>

C15_Witness ==
  /\ call.op = "leaderboard"
  /\ Names(users) = <<"A", "B", "C">>
  /\ Names(call.users) = <<"C", "B", "A">>

\* the answer holds an entry of the target configuration (time mode, 15 s)
Yields(r) == IsOk(r) /\ \E i \in 1..Len(r.body) : Matches15s(r.body[i])

\* the personal-bests answers the client has consumed
PbAsked(mt) == {k \in 1..Len(mt.calls) : mt.calls[k] = "pb"}

\* the client went through the chain in order and stopped at the first step
\* that yielded: calls are pb (once or more), then last, then recent
FallbackChain(up, mt) ==
  LET n == Cardinality(PbAsked(mt))
      rest == SubSeq(mt.calls, n + 1, Len(mt.calls))
      pbYields == Yields(up.pb[n])
  IN /\ n >= 1
     /\ PbAsked(mt) = 1..n
     /\ rest \in {<<>>, <<"last">>, <<"last", "recent">>}
     /\ rest = <<>> <=> pbYields
     /\ rest = <<"last">> <=> (~pbYields /\ Yields(up.last))
     /\ rest = <<"last", "recent">> <=> (~pbYields /\ ~Yields(up.last))
     /\ mt.ok <=> (pbYields \/ Yields(up.last) \/ Yields(up.recent))
     /\ (~pbYields /\ up.last = Ok(<<eGood>>))
          => /\ mt.ok
             /\ mt.wpm15 = MathRound(eGood.wpm.m)
             /\ mt.accuracy = MathRound100(eGood.acc.m)

\* C16 (as claimed): the client tries personal-bests, then the most recent
\* result, then the window of recent results, returns at the first step
\* that yields a time-mode 15 s entry without calling a later one, and fails
\* only when none of the three yields; with no qualifying personal best and
\* a matching most recent result, that result's score and accuracy come back.
C16_FallbackChain ==
  call.op \in {"fetched", "fetchedRetrying"} => FallbackChain(call.up, call.mt)

\* C17 (as claimed): when the personal-bests request is answered 401, 470,
\* 471 or 472 the fetch fails at once: personal-bests is asked once and
\* neither of the other two endpoints is called.
C17_FailFast ==
  (/\ call.op = "fetchedRetrying"
   /\ ~call.up.pb[1].threw
   /\ call.up.pb[1].status \in {401, 470, 471, 472})
  => /\ ~call.mt.ok
     /\ call.mt.calls = <<"pb">>

\* C18 (as claimed): every score the client returns is an integer in
\* [0, 2000] and every accuracy is in [0, 100]; -5 gives 0, 5000 gives 2000,
\* an accuracy of 150 gives 100, a non-numeric value gives 0.
C18_Clamping ==
  (call.op \in {"fetched", "fetchedRetrying"} /\ call.mt.ok)
  => /\ call.mt.wpm15 \in 0..MAX_WPM
     /\ call.mt.accuracy \in 0..(MAX_ACC * 100)

\* C19: the validator answers invalid exactly for status 401, 470, 471 and
\* 472, valid for every 2xx, and indeterminate for 429, every 5xx and a
\* failed or timed-out request; neither the join handler nor the sweep
\* takes the branch of an invalid credential on an indeterminate answer.
C19_Classification ==
  call.op \in {"probed", "joinUsed", "sweepUsed"} =>
    LET r == call.resp
        v == call.v
    IN /\ v.ok = "false" <=> (~r.threw /\ r.status \in {401, 470, 471, 472})
       /\ (~r.threw /\ r.status \in 200..299) => v.ok = "true"
       /\ (r.threw \/ r.status = 429 \/ r.status \in 500..599) => v.ok = "null"
       /\ (call.op \in {"joinUsed", "sweepUsed"} /\ v.ok = "null") => ~call.refused

C19_Witness ==
  /\ call.op = "sweepUsed"
  /\ call.resp.status = 503
  /\ call.v.ok = "null"
  /\ ~call.refused

\* C20 (as claimed): a request without a valid country header, with no
\* cached lookup and with both geolocation providers throwing or giving no
\* country is not admitted, and the join handler answers rejected(region).
C20_FailClosed ==
  (/\ call.op \in {"gated", "gatedHardened"}
   /\ ~ValidCountryHeader(call.req.cfCountry)
   /\ call.req.cache = NoCache
   /\ Failover(call.req) = Null)
  => /\ ~call.allowed
     /\ \A r \in Reqs :
           join[r].pc # "idle" => join[r].outcome = "rejected(region)"

(***************************************************************************)
(* Responses of POST /join (json = FALSE) and POST /json/join (json = TRUE)  *)
(***************************************************************************)
\* what res.status(..).send(..) / res.redirect(..) / res.json(..) put on the
\* wire for a request that ended as j
Response(json, j) ==
  LET who == IF j.sessionUser = Null THEN j.siteUsername ELSE j.sessionUser
  IN CASE j.outcome = "rejected(region)" ->
            [status |-> 403, body |-> "Israel-only access."]
       [] j.outcome = "rejected(bad-input)" ->
            [status |-> 400,
             body |-> IF ~validUsername(j.siteUsername)
                        THEN (IF json THEN "Bad username format"
                              ELSE "Username must be 3-20 chars: letters, numbers, _ or -")
                      ELSE (IF json THEN "Bad Ape Key" ELSE "Ape Key missing or too long.")]
       [] j.outcome = "throttled" ->
            [status |-> 429, body |-> IF json THEN "Please slow down" ELSE "Please slow down."]
       [] j.outcome = "rejected(unauthorized)" ->
            [status |-> 400, body |-> "Ape Key invalid or not authorized."]
       [] j.outcome = "rejected(conflict)" ->
            [status |-> 409, body |-> "Username is already taken."]
       [] j.outcome = "success(relogin)" ->
            IF json THEN [status |-> 200, body |-> "relogin:" \o who]
            ELSE [status |-> 302, body |-> "Location: /"]
       [] j.outcome = "success(created)" ->
            IF json THEN [status |-> 200, body |-> "created:" \o who]
            ELSE [status |-> 302, body |-> "Location: /"]
       [] j.outcome = "error(server)" ->
            [status |-> 500, body |-> IF json THEN "Server error" ELSE "Server error while joining."]
       [] OTHER -> [status |-> 0, body |-> ""]

\* the status codes the interface documents for an outcome
DocumentedStatus(outcome) ==
  CASE outcome \in {"success(relogin)", "success(created)"} -> {200, 302}
    [] outcome = "rejected(bad-input)" -> {400}
    [] outcome \in {"rejected(unauthorized)", "rejected(region)"} -> {401, 403}
    [] outcome = "rejected(conflict)" -> {409}
    [] outcome = "error(server)" -> {500}
    [] OTHER -> {}

\* C21 (as claimed): on both routes a join that ended in one of the seven
\* outcomes answers with a status documented for that outcome (200/302
\* success, 400 bad input, 401/403 unauthorized or region, 409 conflict, 500
\* server error), and its response differs from the response the same
\* request would get under each of the other six outcomes.
C21_StatusMapping ==
  \A r \in Reqs : \A json \in BOOLEAN :
    (join[r].pc = "done" /\ join[r].outcome \in SevenOutcomes)
    => /\ Response(json, join[r]).status \in DocumentedStatus(join[r].outcome)
       /\ \A o \in SevenOutcomes \ {join[r].outcome} :
            /\ Response(json, [join[r] EXCEPT !.outcome = o]).status \in DocumentedStatus(o)
            /\ Response(json, [join[r] EXCEPT !.outcome = o]) # Response(json, join[r])

\* C22 (as claimed): once a username has a forward binding, no step of a
\* join or of a sweep replaces the bound credential by a different one; the
\* forward entry of a username changes only by being deleted.
C22_NoRotation ==
  [][\A u \in DOMAIN keystore.byUser :
       u \in DOMAIN keystore'.byUser => keystore'.byUser[u] = keystore.byUser[u]]_vars

(***************************************************************************)
(* The service from the moment the join of ("amy", "k1") has answered      *)
(* success(created) and returned: both bindings and the profile are        *)
(* written, the throttle remembers the credential, one join has been       *)
(* served                                                                  *)
(***************************************************************************)
CreatedStore ==
  setUsernameForKeyHash(upsertKey(EmptyStore, "amy", "k1"), sha256("k1"), "amy")

InitCreated ==
  /\ keystore = CreatedStore
  /\ users \in {upsertUser(<<>>, Profile("amy", mt, StartMs)) :
                  mt \in {m \in FetchResults : m.ok}}
  /\ now = StartMs
  /\ lastByKeyHash = Put(<<>>, sha256("k1"), StartMs)
  /\ join = [r \in Reqs |-> IdleJoin]
  /\ sweep = [w \in SweepIds |-> IdleSweep]
  /\ joinsStarted = 1
  /\ sweepsStarted = 0
  /\ api = NoCall
  /\ call = NoInput

SpecCreated == InitCreated /\ [][NextSeq]_vars

\* C23 (as claimed): after the join of (U, C) ended in success(created, U),
\* a later admitted, unthrottled join with credential C and any well-formed
\* username ends in success(relogin, U) or error(server), leaves the
\* Credential Store exactly as it was and leaves the Profile Store with
\* exactly one profile for U.
C23_Dedup ==
  \A r \in Reqs :
    (JoinDoneAlone(r) /\ ReachedValidator(r) /\ join[r].apeKey = "k1")
    => /\ join[r].outcome \in {"success(relogin)", "error(server)"}
       /\ join[r].outcome = "success(relogin)" => join[r].sessionUser = "amy"
       /\ ~join[r].wroteKeys
       /\ keystore = CreatedStore
       /\ Cardinality({i \in 1..Len(users) : users[i].username = "amy"}) = 1

\* both bindings of the request's username and credential are in the store
BindingsOf(r) ==
  /\ Lookup(keystore.byUser, join[r].siteUsername) = join[r].apeKey
  /\ Lookup(keystore.byHash, join[r].keyHash) = join[r].siteUsername

\* C24: a new registration (branch C) has written the forward and the
\* reverse binding before its profile refresh starts; if the refresh then
\* fails after all its retries (no profile written), the join ends in
\* error(server), establishes no session, leaves no profile for the
\* username, and the bindings it wrote remain in the Credential Store.
C24_FailedRefresh ==
  \A r \in Reqs :
    /\ (join[r].alone /\ join[r].pc = "fetch" /\ join[r].branch = "C")
       => (join[r].wroteKeys /\ BindingsOf(r) /\ join[r].wroteProfile = Null)
    /\ (JoinDoneAlone(r) /\ join[r].branch = "C" /\ join[r].wroteProfile = Null)
       => /\ join[r].outcome = "error(server)"
          /\ join[r].sessionUser = Null
          /\ ~usernameExists(users, join[r].siteUsername)
          /\ join[r].wroteKeys
          /\ BindingsOf(r)

C24_Witness ==
  \E r \in Reqs :
    /\ JoinDoneAlone(r)
    /\ join[r].branch = "C"
    /\ join[r].outcome = "error(server)"
    /\ BindingsOf(r)
    /\ ~HasProfile(users, join[r].siteUsername)

\* C25 (as claimed): a username that has a binding but no profile when a
\* sweep starts has a profile when that sweep has finished, provided the
\* upstream answered valid to every probe and delivered every score the
\* sweep asked for.
C25_SweepRepairs ==
  \A w \in SweepIds :
    (SweepDoneAlone(w)
       /\ sweep[w].probedInvalid = {} /\ sweep[w].probedIndet = {}
       /\ sweep[w].fetchFailed = {})
    => \A u \in DOMAIN keystore.byUser :
         ~HasProfile(sweep[w].loaded, u) => HasProfile(users, u)

\* C26: a bound-but-unscored user is repaired by a retried join: if U has
\* the forward and the reverse binding to C and no profile, a join with
\* (U, C) that reaches the validator and whose refresh succeeds ends in
\* success(relogin, U), writes a profile for U and leaves both bindings
\* unchanged (and so it does when U has a profile already).
C26_RetriedJoinRepairs ==
  \A r \in Reqs :
    (JoinDoneAlone(r) /\ ReachedValidator(r)
       /\ join[r].preFwd = join[r].apeKey
       /\ join[r].preRev = join[r].siteUsername
       /\ join[r].outcome # "error(server)")
    => /\ join[r].outcome = "success(relogin)"
       /\ join[r].sessionUser = join[r].siteUsername
       /\ join[r].wroteProfile = join[r].siteUsername
       /\ Cardinality({i \in 1..Len(users) :
                         users[i].username = join[r].siteUsername}) = 1
       /\ ~join[r].wroteKeys
       /\ BindingsOf(r)

C26_Witness ==
  \E r \in Reqs :
    /\ JoinDoneAlone(r)
    /\ join[r].preFwd = join[r].apeKey
    /\ join[r].preRev = join[r].siteUsername
    /\ ~join[r].preExists
    /\ join[r].outcome = "success(relogin)"
    /\ HasProfile(users, join[r].siteUsername)

(***************************************************************************)
(* The service with overlapping handlers, for admitted requests with       *)
(* well-formed usernames and credentials                                   *)
(***************************************************************************)
NextRace ==
  \/ \E r \in Reqs, u \in {"amy", "bob"}, k \in {"k1", "k2"} : JoinStart(r, TRUE, u, k)
  \/ \E r \in Reqs, resp \in ProbeResponses : JoinProbe(r, resp)
  \/ \E r \in Reqs : JoinFindBound(r)
  \/ \E r \in Reqs : JoinUsernameExists(r)
  \/ \E r \in Reqs : JoinGetApeKey(r)
  \/ \E r \in Reqs : JoinUpsertKeyRead(r)
  \/ \E r \in Reqs : JoinUpsertKeyWrite(r)
  \/ \E r \in Reqs : JoinSetHashRead(r)
  \/ \E r \in Reqs : JoinSetHashWrite(r)
  \/ \E r \in Reqs, mts \in [1..RETRIES -> FetchResults] : JoinFetch(r, mts)
  \/ \E r \in Reqs : JoinUpsertUserLoad(r)
  \/ \E r \in Reqs : JoinUpsertUserSave(r)
  \/ \E r \in Reqs : JoinReturn(r)
  \/ \E w \in SweepIds : SweepStart(w)
  \/ \E w \in SweepIds : SweepGetApeKey(w)
  \/ \E w \in SweepIds, resp \in ProbeResponses : SweepTestApeKey(w, resp)
  \/ \E w \in SweepIds, mt \in FetchResults : SweepFetch(w, mt)
  \/ \E w \in SweepIds : SweepSaveUsers(w)
  \/ \E w \in SweepIds : SweepReturn(w)
  \/ Tick

SpecRace == Init /\ [][NextRace]_vars

\* C27: the lost update between a join and a sweep is reachable. The step
\* that loses it: the save of a sweep writes the list the sweep built from
\* what it had loaded, so every profile written to the store since that
\* load, the one of a join that has answered success included, is gone
\* after the save. The witness is the state the claim describes.
C27_LostUpdate ==
  [][\A w \in SweepIds :
       (sweep[w].pc = "saveUsers" /\ sweep'[w].pc = "done")
       => /\ users' = sweep[w].keep
          /\ \A i \in 1..Len(users) :
               ~HasProfile(sweep[w].loaded, users[i].username)
               => ~HasProfile(users', users[i].username)]_vars

\* one join and one sweep have finished: the sweep had loaded a list
\* without U, the join answered success and wrote the profile of U, its
\* credential is bound to U, and the store holds no profile of U
C27_Witness ==
  \E r \in Reqs, w \in SweepIds :
    /\ joinsStarted = 1 /\ sweepsStarted = 1
    /\ join[r].pc = "done"
    /\ join[r].outcome \in {"success(created)", "success(relogin)"}
    /\ join[r].wroteProfile = join[r].sessionUser
    /\ sweep[w].pc = "done"
    /\ ~HasProfile(sweep[w].loaded, join[r].wroteProfile)
    /\ Lookup(keystore.byHash, join[r].keyHash) = join[r].wroteProfile
    /\ ~HasProfile(users, join[r].wroteProfile)

\* C28 (as claimed): when two new registrations with distinct usernames
\* and distinct credentials, run interleaved in any order, have both
\* answered, every reverse entry of the Credential Store has a forward
\* entry for its username holding a credential of that hash, and every
\* forward entry has its reverse entry.
C28_IndexConsistency ==
  \A r, q \in Reqs :
    (join[r].pc = "done" /\ join[q].pc = "done"
       /\ join[r].branch = "C" /\ join[q].branch = "C"
       /\ join[r].siteUsername # join[q].siteUsername
       /\ join[r].apeKey # join[q].apeKey)
    => /\ \A h \in DOMAIN keystore.byHash :
            /\ keystore.byHash[h] \in DOMAIN keystore.byUser
            /\ sha256(keystore.byUser[keystore.byHash[h]]) = h
       /\ \A u \in DOMAIN keystore.byUser :
            Lookup(keystore.byHash, sha256(keystore.byUser[u])) = u

\* what the sweep asked the upstream about
AskedAbout(w) ==
  sweep[w].probedValid \cup sweep[w].probedInvalid \cup sweep[w].probedIndet
    \cup sweep[w].fetched \cup sweep[w].fetchFailed

\* C29: a profile whose username has no credential in the Credential Store
\* when the sweep reaches it is absent from the Profile Store after the
\* sweep, no upstream probe and no score fetch was made for it, and the
\* profiles the sweep refreshed are all in the saved list.
C29_OrphanCleanup ==
  \A w \in SweepIds :
    SweepDoneAlone(w)
    => /\ \A i \in 1..Len(sweep[w].loaded) :
            Lookup(keystore.byUser, trim(sweep[w].loaded[i].username)) = Null
            => /\ ~HasProfile(users, sweep[w].loaded[i].username)
               /\ sweep[w].loaded[i].username \notin AskedAbout(w)
       /\ \A u \in sweep[w].fetched : HasProfile(users, u)

\* a sweep met an orphan and a bound profile, dropped the first and kept
\* the second
C29_Witness ==
  \E w \in SweepIds :
    /\ SweepDoneAlone(w)
    /\ \E i \in 1..Len(sweep[w].loaded) :
         /\ Lookup(keystore.byUser, sweep[w].loaded[i].username) = Null
         /\ ~HasProfile(users, sweep[w].loaded[i].username)
    /\ sweep[w].fetched # {}
    /\ users # <<>>

\* C30: deleteBinding(U) removes the forward entry of U; it removes the
\* reverse entry for the hash of U's credential only if that entry resolves
\* to U; a reverse entry that resolves to another username and every
\* binding of every other username are unchanged.
C30_GuardedDeletion ==
  api.op = "deleteUserAndKey"
  => LET U == trim(api.username)
         before == api.before
         cred == Lookup(before.byUser, U)
     IN /\ U \notin DOMAIN keystore.byUser
        /\ DOMAIN keystore.byUser = DOMAIN before.byUser \ {U}
        /\ \A v \in DOMAIN keystore.byUser : keystore.byUser[v] = before.byUser[v]
        /\ DOMAIN keystore.byHash \subseteq DOMAIN before.byHash
        /\ \A h \in DOMAIN before.byHash :
             IF cred # Null /\ h = sha256(cred) /\ before.byHash[h] = U
               THEN h \notin DOMAIN keystore.byHash
             ELSE h \in DOMAIN keystore.byHash /\ keystore.byHash[h] = before.byHash[h]

\* U is deleted while the reverse entry of its credential resolves to
\* another username, and that entry is still there
C30_Witness ==
  /\ api.op = "deleteUserAndKey"
  /\ trim(api.username) \in DOMAIN api.before.byUser
  /\ LET h == sha256(api.before.byUser[trim(api.username)])
     IN /\ h \in DOMAIN api.before.byHash
        /\ api.before.byHash[h] # trim(api.username)
        /\ Lookup(keystore.byHash, h) = api.before.byHash[h]
  /\ trim(api.username) \notin DOMAIN keystore.byUser

\* the entries of a personal-bests answer that qualify: time mode, 15 s,
\* finite score
Qualifying(body) ==
  {i \in 1..Len(body) : Matches15s(body[i]) /\ body[i].wpm.num}

\* C31 (as claimed): when the personal-bests answer the client stops at
\* holds qualifying entries, the client returns the one of maximum score
\* among them, wherever it stands in the answer; a result taken from the
\* personal-bests answer is always one of its qualifying entries.
C31_BestSelection ==
  call.op \in {"fetched", "fetchedRetrying"}
  => LET mt == call.mt
         pbR == call.up.pb[Cardinality(PbAsked(mt))]
         Q == Qualifying(pbR.body)
         fromPb == mt.ok /\ mt.calls[Len(mt.calls)] = "pb"
         IsResult(e) ==
           /\ mt.wpm15 \in {round0(e.wpm), round0_clamped(e.wpm)}
           /\ mt.accuracy \in {round2(e.acc), round2_clamped(e.acc)}
     IN /\ (IsOk(pbR) /\ Q # {})
           => /\ fromPb
              /\ \E i \in Q : /\ \A k \in Q : pbR.body[k].wpm.m <= pbR.body[i].wpm.m
                               /\ IsResult(pbR.body[i])
        /\ fromPb => Q # {}

\* C32 (as claimed): one call of the client issues the personal-bests
\* request at most 3 times, repeats it only after the previous attempt
\* failed in transit (network error or timeout), issues the most-recent and
\* the recent-window request at most once each, and so makes at most 5
\* upstream requests.
C32_BoundedRetry ==
  call.op \in {"fetched", "fetchedRetrying"}
  => LET calls == call.mt.calls
         n == Cardinality(PbAsked(call.mt))
     IN /\ n <= RETRIES
        /\ PbAsked(call.mt) = 1..n
        /\ \A k \in 2..n : call.up.pb[k - 1].threw
        /\ Cardinality({k \in 1..Len(calls) : calls[k] = "last"}) <= 1
        /\ Cardinality({k \in 1..Len(calls) : calls[k] = "recent"}) <= 1
        /\ Len(calls) <= RETRIES + 2

(***************************************************************************)
(* The service when the Profile Store can fail under the sweep: loadUsers  *)
(* or saveUsers rejects, the outer catch of the callback logs it and the   *)
(* callback returns. A write that is rejected has written nothing.         *)
(***************************************************************************)
Running ==
  \/ \E q \in Reqs : join[q].pc \notin {"idle", "done"}
  \/ \E w \in SweepIds : sweep[w].pc \notin {"idle", "done"}

\* the timer fires and await loadUsers() rejects
SweepLoadFails(w) ==
  /\ FreeSweepSlot(w)
  /\ sweepsStarted < MaxSweeps
  /\ joinsStarted + sweepsStarted < MaxHandlers
  /\ InFlight < MaxInFlight
  /\ sweepsStarted' = sweepsStarted + 1
  /\ sweep' = [DisturbedSweeps EXCEPT ![w] =
                 [IdleSweep EXCEPT !.alone = ~AnyBusy, !.pc = "done", !.failed = TRUE]]
  /\ join' = DisturbedJoins
  /\ UNCHANGED <<keystore, users, now, lastByKeyHash, joinsStarted, api, call>>

\* await saveUsers(keep) rejects
SweepSaveFails(w) ==
  /\ sweep[w].pc = "saveUsers"
  /\ sweep' = [sweep EXCEPT ![w] = [@ EXCEPT !.pc = "done", !.failed = TRUE]]
  /\ UNCHANGED <<keystore, users, now, lastByKeyHash, join,
                 joinsStarted, sweepsStarted, api, call>>

\* handlers run one after the other; the record of a handler that has
\* answered may still be there when the next one starts
NextFail ==
  \/ \E r \in Reqs, u \in {"amy", "bob"}, k \in {"k1", "k2"} :
        ~Running /\ JoinStart(r, TRUE, u, k)
  \/ \E r \in Reqs, resp \in ProbeResponses : JoinProbe(r, resp)
  \/ \E r \in Reqs : JoinFindBound(r)
  \/ \E r \in Reqs : JoinUsernameExists(r)
  \/ \E r \in Reqs : JoinGetApeKey(r)
  \/ \E r \in Reqs : JoinUpsertKeyRead(r)
  \/ \E r \in Reqs : JoinUpsertKeyWrite(r)
  \/ \E r \in Reqs : JoinSetHashRead(r)
  \/ \E r \in Reqs : JoinSetHashWrite(r)
  \/ \E r \in Reqs, mts \in [1..RETRIES -> FetchResults] : JoinFetch(r, mts)
  \/ \E r \in Reqs : JoinUpsertUserLoad(r)
  \/ \E r \in Reqs : JoinUpsertUserSave(r)
  \/ \E r \in Reqs : JoinReturn(r)
  \/ \E w \in SweepIds : ~Running /\ SweepStart(w)
  \/ \E w \in SweepIds : ~Running /\ SweepLoadFails(w)
  \/ \E w \in SweepIds : SweepGetApeKey(w)
  \/ \E w \in SweepIds, resp \in ProbeResponses : SweepTestApeKey(w, resp)
  \/ \E w \in SweepIds, mt \in FetchResults : SweepFetch(w, mt)
  \/ \E w \in SweepIds : SweepSaveUsers(w)
  \/ \E w \in SweepIds : SweepSaveFails(w)
  \/ \E w \in SweepIds : SweepReturn(w)
  \/ Tick

SpecFail == Init /\ [][NextFail]_vars

\* C33: a sweep that fails as a whole (loadUsers or the final saveUsers
\* rejects) is caught: the callback returns, the failing step writes
\* neither store, and a sweep that ran alone up to its failing save has
\* written nothing of its list to the Profile Store. A later tick still
\* starts a sweep, which works on what it loads itself (the witness).
C33_SweepFailureIsolation ==
  [][\A w \in SweepIds :
       (sweep'[w].failed /\ ~sweep[w].failed)
       => /\ sweep'[w].pc = "done"
          /\ users' = users
          /\ keystore' = keystore
          /\ sweep[w].alone => users = sweep[w].loaded]_vars

\* a sweep has failed at its save with a list that differs from the store,
\* and the sweep of a later tick has loaded the untouched store, refreshed
\* it and saved its own list
C33_Witness ==
  \E w, v \in SweepIds :
    /\ sweep[w].pc = "done" /\ sweep[w].failed
    /\ sweep[w].loaded # <<>> /\ sweep[w].keep # sweep[w].loaded
    /\ sweep[v].pc = "done" /\ ~sweep[v].failed
    /\ sweep[v].loaded = sweep[w].loaded
    /\ sweep[v].keep # <<>>
    /\ users = sweep[v].keep

\* C34: a join sets the session user if and only if it ends in success,
\* and not before the profile write of refreshOne has completed; the
\* session username is the reverse-bound username in the bound-credential
\* branch and the normalized typed username in the other two success
\* branches; a rejected, throttled or failed join leaves the session alone.
C34_SessionFollowsSuccess ==
  \A r \in Reqs :
    /\ join[r].pc # "done" => join[r].sessionUser = Null
    /\ join[r].pc = "done" =>
         /\ join[r].sessionUser # Null
              <=> join[r].outcome \in {"success(relogin)", "success(created)"}
         /\ join[r].sessionUser # Null =>
              /\ join[r].wroteProfile = join[r].sessionUser
              /\ join[r].branch \in {"A", "B", "C"}
              /\ (join[r].branch = "A" /\ join[r].alone)
                   => join[r].sessionUser = join[r].preRev
              /\ join[r].branch \in {"B", "C"}
                   => join[r].sessionUser = join[r].siteUsername

\* a relogin through the bound-credential branch under another typed name
C34_Witness ==
  \E r \in Reqs :
    /\ JoinDoneAlone(r)
    /\ join[r].outcome = "success(relogin)"
    /\ join[r].branch = "A"
    /\ join[r].sessionUser = join[r].preRev
    /\ join[r].sessionUser # join[r].siteUsername
    /\ HasProfile(users, join[r].sessionUser)

(***************************************************************************)
(* The join handlers alone, one request at a time, with requests inside    *)
(* and outside the window of the per-key throttle                          *)
(***************************************************************************)
\* half a throttle window passes
HalfTick ==
  /\ now < StartMs + MaxTicks * TickMs
  /\ now' = now + KEY_MIN_MS \div 2
  /\ UNCHANGED <<keystore, users, lastByKeyHash, join, sweep,
                 joinsStarted, sweepsStarted, api, call>>

NextThrottle ==
  \/ \E r \in Reqs, admitted \in BOOLEAN, u \in RawUsernames, k \in RawKeys :
        ~AnyBusy /\ JoinStart(r, admitted, u, k)
  \/ \E r \in Reqs, resp \in ProbeResponses : JoinProbe(r, resp)
  \/ \E r \in Reqs : JoinFindBound(r)
  \/ \E r \in Reqs : JoinUsernameExists(r)
  \/ \E r \in Reqs : JoinGetApeKey(r)
  \/ \E r \in Reqs : JoinUpsertKeyRead(r)
  \/ \E r \in Reqs : JoinUpsertKeyWrite(r)
  \/ \E r \in Reqs : JoinSetHashRead(r)
  \/ \E r \in Reqs : JoinSetHashWrite(r)
  \/ \E r \in Reqs, mts \in [1..RETRIES -> FetchResults] : JoinFetch(r, mts)
  \/ \E r \in Reqs : JoinUpsertUserLoad(r)
  \/ \E r \in Reqs : JoinUpsertUserSave(r)
  \/ \E r \in Reqs : JoinReturn(r)
  \/ HalfTick

SpecThrottle == Init /\ [][NextThrottle]_vars

\* C35: an admitted, well-formed join whose credential hash was let through
\* less than 8 s before is answered throttled (429) with no validator call
\* and no Credential Store or Profile Store access, and does not restart
\* the window; a request with no earlier accepted one for its hash, or at
\* least 8 s after it, is let through to the validator and starts the
\* window.
C35_PerKeyThrottle ==
  [][\A r \in Reqs :
       (join[r].pc = "idle" /\ join'[r].pc # "idle"
          /\ join'[r].outcome \notin {"rejected(region)", "rejected(bad-input)"})
       => LET kh == join'[r].keyHash
          IN IF kh \in DOMAIN lastByKeyHash /\ now - lastByKeyHash[kh] < KEY_MIN_MS
               THEN /\ join'[r].pc = "done"
                    /\ join'[r].outcome = "throttled"
                    /\ ~join'[r].called /\ ~join'[r].touched /\ ~join'[r].wroteKeys
                    /\ lastByKeyHash' = lastByKeyHash
                    /\ keystore' = keystore
                    /\ users' = users
             ELSE /\ join'[r].pc = "probe"
                  /\ kh \in DOMAIN lastByKeyHash'
                  /\ lastByKeyHash'[kh] = now]_vars

\* a join made half a window after the registration with the same
\* credential has been answered throttled, and the window still starts at
\* the registration
C35_Witness ==
  \E r \in Reqs :
    /\ join[r].pc = "done"
    /\ join[r].outcome = "throttled"
    /\ join[r].keyHash \in DOMAIN keystore.byHash
    /\ now = StartMs + KEY_MIN_MS \div 2
    /\ join[r].keyHash \in DOMAIN lastByKeyHash
    /\ lastByKeyHash[join[r].keyHash] = StartMs

(***************************************************************************)
(* refreshOne attempt by attempt, with Profile Store operations that can   *)
(* reject: whatever is thrown inside the try of an attempt is caught and   *)
(* the loop goes on; after the last attempt the last error is rethrown     *)
(***************************************************************************)
\* catch (e) { lastErr = e }, then the next backoff or throw lastErr
RetryOrThrow(j) ==
  IF j.attempt >= RETRIES THEN Finish(j, "error(server)")
  ELSE [j EXCEPT !.pc = "fetch", !.usersL = <<>>, !.mt = FetchFail, !.ts = 0]

\* a loop over four backoffs instead of three
RefreshOneFetch_FourBackoffs(r, mt) ==
  /\ join[r].pc = "fetch"
  /\ join' = [join EXCEPT ![r] =
                IF mt.ok
                  THEN [@ EXCEPT !.pc = "upsertUserLoad", !.mt = mt, !.ts = now,
                                 !.attempt = @ + 1]
                ELSE IF join[r].attempt + 1 > RETRIES
                  THEN Finish([@ EXCEPT !.attempt = @ + 1], "error(server)")
                ELSE [@ EXCEPT !.attempt = @ + 1]]
  /\ UNCHANGED <<keystore, users, now, lastByKeyHash, sweep,
                 joinsStarted, sweepsStarted, api, call>>

\* one attempt: const mt = await fetchMonkeytype15s(siteUsername, apeKey)
RefreshOneFetch(r, mt) ==
  /\ join[r].pc = "fetch"
  /\ join' = [join EXCEPT ![r] =
                IF mt.ok
                  THEN [@ EXCEPT !.pc = "upsertUserLoad", !.mt = mt, !.ts = now,
                                 !.attempt = @ + 1]
                ELSE RetryOrThrow([@ EXCEPT !.attempt = @ + 1])]
  /\ UNCHANGED <<keystore, users, now, lastByKeyHash, sweep,
                 joinsStarted, sweepsStarted, api, call>>

\* upsertUser: loadUsers returns or rejects
RefreshOneLoad(r, ok) ==
  IF ok THEN JoinUpsertUserLoad(r)
  ELSE /\ join[r].pc = "upsertUserLoad"
       /\ join' = [join EXCEPT ![r] = RetryOrThrow(@)]
       /\ UNCHANGED <<keystore, users, now, lastByKeyHash, sweep,
                      joinsStarted, sweepsStarted, api, call>>

\* upsertUser: saveUsers returns or rejects (having written nothing)
RefreshOneSave(r, ok) ==
  IF ok THEN JoinUpsertUserSave(r)
  ELSE /\ join[r].pc = "upsertUserSave"
       /\ join' = [join EXCEPT ![r] = RetryOrThrow(@)]
       /\ UNCHANGED <<keystore, users, now, lastByKeyHash, sweep,
                      joinsStarted, sweepsStarted, api, call>>

\* the steps of a request between its arrival and its response; each is an
\* upstream call or a store operation, which returns or fails in time
LiveSteps ==
  \/ \E r \in Reqs, resp \in ProbeResponses : JoinProbe(r, resp)
  \/ \E r \in Reqs : JoinFindBound(r)
  \/ \E r \in Reqs : JoinUsernameExists(r)
  \/ \E r \in Reqs : JoinGetApeKey(r)
  \/ \E r \in Reqs : JoinUpsertKeyRead(r)
  \/ \E r \in Reqs : JoinUpsertKeyWrite(r)
  \/ \E r \in Reqs : JoinSetHashRead(r)
  \/ \E r \in Reqs : JoinSetHashWrite(r)
  \/ \E r \in Reqs, mt \in FetchResults : RefreshOneFetch(r, mt)
  \/ \E r \in Reqs, ok \in BOOLEAN : RefreshOneLoad(r, ok)
  \/ \E r \in Reqs, ok \in BOOLEAN : RefreshOneSave(r, ok)

NextLive ==
  \/ \E r \in Reqs, admitted \in BOOLEAN, u \in RawUsernames, k \in RawKeys :
        ~AnyBusy /\ JoinStart(r, admitted, u, k)
  \/ LiveSteps
  \/ \E r \in Reqs : JoinReturn(r)
  \/ Tick

SpecLive == Init /\ [][NextLive]_vars /\ WF_vars(LiveSteps)

\* C36: provided every upstream call and store operation returns or fails,
\* every join reaches a response, and exactly one: a request that has
\* answered changes nothing until it is gone. It probes the validator at
\* most once, refreshOne makes at most 3 attempts and writes the profile at
\* most once, success follows an attempt that fetched and saved, and
\* error(server) out of refreshOne comes after exactly 3 failed attempts.
C36_JoinTerminates ==
  /\ \A r \in Reqs :
       (join[r].pc \notin {"idle", "done"}) ~> (join[r].pc = "done")
  /\ [](\A r \in Reqs :
          /\ join[r].pc = "probe" => ~join[r].called
          /\ join[r].attempt <= RETRIES
          /\ join[r].pc = "done" =>
               /\ join[r].outcome \in {"success(relogin)", "success(created)"}
                    => (join[r].attempt \in 1..RETRIES
                          /\ join[r].wroteProfile = join[r].target)
               /\ join[r].outcome = "error(server)"
                    => (join[r].attempt = RETRIES /\ join[r].wroteProfile = Null)
               /\ join[r].outcome \notin {"success(relogin)", "success(created)",
                                           "error(server)"}
                    => join[r].attempt = 0)
  /\ [][\A r \in Reqs :
          /\ join[r].pc = "done" => (join'[r] = join[r] \/ join'[r] = IdleJoin)
          /\ join[r].called => join'[r].pc # "probe"
          /\ (JoinBusy(join[r]) /\ users' # users)
               => (join[r].wroteProfile = Null /\ join'[r].pc = "done")]_vars

\* a join has answered success on its third attempt, after a failed fetch
\* and a rejected store operation
C36_Witness ==
  \E r \in Reqs :
    /\ join[r].pc = "done"
    /\ join[r].outcome = "success(created)"
    /\ join[r].attempt = RETRIES
    /\ HasProfile(users, join[r].siteUsername)

(***************************************************************************)
(* The two join routes side by side: each handler run to its response on   *)
(* the same stores, throttle map, request and upstream answers             *)
(***************************************************************************)
Answer(outcome, status, store, list, throttle, session) ==
  [outcome |-> outcome, status |-> status, keystore |-> store, users |-> list,
   lastByKeyHash |-> throttle, sessionUser |-> session]

\* app.post("/join"), lines 372-425, run from arrival to response with no other
\* handler in between: what it answers and what it leaves behind
postJoin(st, in) ==
  LET siteUsername == normalizeUsername(in.rawUsername)
      apeKey == trim(in.rawKey)
      keyHash == sha256(apeKey)
      passed == Put(st.lastByKeyHash, keyHash, in.now)
      n == FirstOk(in.mts)
      refreshed(target) == upsertUser(st.users, Profile(target, in.mts[n], in.now))
      boundUser == findUsernameByKeyHash(st.keystore, keyHash)
      storedKey == getApeKey(st.keystore, siteUsername)
      bound == setUsernameForKeyHash(upsertKey(st.keystore, siteUsername, apeKey),
                                     keyHash, siteUsername)
  IN IF ~in.admitted
       THEN Answer("rejected(region)", 403, st.keystore, st.users, st.lastByKeyHash, Null)
     ELSE IF ~validUsername(siteUsername)
       THEN Answer("rejected(bad-input)", 400, st.keystore, st.users, st.lastByKeyHash, Null)
     ELSE IF apeKey = "" \/ Len(apeKey) > MAX_KEY_LEN
       THEN Answer("rejected(bad-input)", 400, st.keystore, st.users, st.lastByKeyHash, Null)
     ELSE IF ~throttleKeyHash(st.lastByKeyHash, keyHash, in.now)
       THEN Answer("throttled", 429, st.keystore, st.users, st.lastByKeyHash, Null)
     ELSE IF Not(testApeKey(in.resp))
       THEN Answer("rejected(unauthorized)", 400, st.keystore, st.users, passed, Null)
     ELSE IF boundUser # Null
       THEN IF n = 0 THEN Answer("error(server)", 500, st.keystore, st.users, passed, Null)
            ELSE Answer("success(relogin)", 302, st.keystore, refreshed(boundUser),
                        passed, boundUser)
     ELSE IF usernameExists(st.users, siteUsername)
       THEN IF storedKey = Null \/ sha256(storedKey) # keyHash
              THEN Answer("rejected(conflict)", 409, st.keystore, st.users, passed, Null)
            ELSE IF n = 0
              THEN Answer("error(server)", 500, st.keystore, st.users, passed, Null)
            ELSE Answer("success(relogin)", 302, st.keystore, refreshed(siteUsername),
                        passed, siteUsername)
     ELSE IF n = 0 THEN Answer("error(server)", 500, bound, st.users, passed, Null)
     ELSE Answer("success(created)", 302, bound, refreshed(siteUsername),
                 passed, siteUsername)

\* an /api/join without the comparison of the stored credential: a taken
\* username is registered anew under the submitted credential
postApiJoin_NoConflict(st, in) ==
  LET a == postJoin(st, in)
      siteUsername == normalizeUsername(in.rawUsername)
      apeKey == trim(in.rawKey)
      n == FirstOk(in.mts)
      bound == setUsernameForKeyHash(upsertKey(st.keystore, siteUsername, apeKey),
                                     sha256(apeKey), siteUsername)
  IN IF a.outcome = "rejected(conflict)"
       THEN IF n = 0
              THEN Answer("error(server)", 500, bound, st.users, a.lastByKeyHash, Null)
            ELSE Answer("success(created)", 200, bound,
                        upsertUser(st.users, Profile(siteUsername, in.mts[n], in.now)),
                        a.lastByKeyHash, siteUsername)
     ELSE IF a.outcome \in {"success(relogin)", "success(created)"}
       THEN [a EXCEPT !.status = 200]
     ELSE a

\* app.post("/api/join"), lines 435-486, run from arrival to response with no other
\* handler in between: what it answers and what it leaves behind
postApiJoin(st, in) ==
  LET siteUsername == normalizeUsername(in.rawUsername)
      apeKey == trim(in.rawKey)
      keyHash == sha256(apeKey)
      passed == Put(st.lastByKeyHash, keyHash, in.now)
      n == FirstOk(in.mts)
      refreshed(target) == upsertUser(st.users, Profile(target, in.mts[n], in.now))
      boundUser == findUsernameByKeyHash(st.keystore, keyHash)
      storedKey == getApeKey(st.keystore, siteUsername)
      bound == setUsernameForKeyHash(upsertKey(st.keystore, siteUsername, apeKey),
                                     keyHash, siteUsername)
  IN IF ~in.admitted
       THEN Answer("rejected(region)", 403, st.keystore, st.users, st.lastByKeyHash, Null)
     ELSE IF ~validUsername(siteUsername)
       THEN Answer("rejected(bad-input)", 400, st.keystore, st.users, st.lastByKeyHash, Null)
     ELSE IF apeKey = "" \/ Len(apeKey) > MAX_KEY_LEN
       THEN Answer("rejected(bad-input)", 400, st.keystore, st.users, st.lastByKeyHash, Null)
     ELSE IF ~throttleKeyHash(st.lastByKeyHash, keyHash, in.now)
       THEN Answer("throttled", 429, st.keystore, st.users, st.lastByKeyHash, Null)
     ELSE IF Not(testApeKey(in.resp))
       THEN Answer("rejected(unauthorized)", 400, st.keystore, st.users, passed, Null)
     ELSE IF boundUser # Null
       THEN IF n = 0 THEN Answer("error(server)", 500, st.keystore, st.users, passed, Null)
            ELSE Answer("success(relogin)", 200, st.keystore, refreshed(boundUser),
                        passed, boundUser)
     ELSE IF usernameExists(st.users, siteUsername)
       THEN IF storedKey = Null \/ sha256(storedKey) # keyHash
              THEN Answer("rejected(conflict)", 409, st.keystore, st.users, passed, Null)
            ELSE IF n = 0
              THEN Answer("error(server)", 500, st.keystore, st.users, passed, Null)
            ELSE Answer("success(relogin)", 200, st.keystore, refreshed(siteUsername),
                        passed, siteUsername)
     ELSE IF n = 0 THEN Answer("error(server)", 500, bound, st.users, passed, Null)
     ELSE Answer("success(created)", 200, bound, refreshed(siteUsername),
                 passed, siteUsername)

\* one request arrives; json says which route it takes. Both handlers are
\* run on the present state and the one of the route is applied.
CallBothJoins(json, admitted, rawUsername, rawKey, resp, mts) ==
  /\ joinsStarted < MaxJoins
  /\ joinsStarted' = joinsStarted + 1
  /\ LET st == [keystore |-> keystore, users |-> users, lastByKeyHash |-> lastByKeyHash]
         in == [admitted |-> admitted, rawUsername |-> rawUsername, rawKey |-> rawKey,
                resp |-> resp, mts |-> mts, now |-> now]
         web == postJoin(st, in)
         viaApi == postApiJoin(st, in)
         taken == IF json THEN viaApi ELSE web
     IN /\ call' = [op |-> "joined", web |-> web, json |-> viaApi]
        /\ keystore' = taken.keystore
        /\ users' = taken.users
        /\ lastByKeyHash' = taken.lastByKeyHash
  /\ UNCHANGED <<now, join, sweep, sweepsStarted, api>>

\* upstream answers for the two-route runs: the probe answers 200, 401 or
\* throws; the refresh succeeds at once, on the second attempt, or never
BothProbes == {r \in ProbeResponses : r.threw \/ r.status \in {200, 401}}
BothFetches ==
  {mts \in [1..RETRIES -> FetchResults] :
     \/ \A n \in 1..RETRIES : mts[n] = FetchFail
     \/ mts[1].ok /\ mts[1].wpm15 = 80 /\ mts[2] = FetchFail /\ mts[3] = FetchFail
     \/ mts[1] = FetchFail /\ mts[2].ok /\ mts[2].wpm15 = 90 /\ mts[3] = FetchFail}

NextBoth ==
  \/ \E json, admitted \in BOOLEAN, u \in RawUsernames, k \in RawKeys,
        resp \in BothProbes, mts \in BothFetches :
        CallBothJoins(json, admitted, u, k, resp, mts)
  \/ Tick

SpecBoth == Init /\ [][NextBoth]_vars

\* C37: from the same Credential Store, Profile Store and throttle map, with
\* the same username, credential, region decision and upstream answers,
\* POST /join and POST /api/join reach the same outcome and leave the same
\* Credential Store, Profile Store, throttle map and session user; their
\* responses differ in encoding only (a success is 302 on one, 200 on the
\* other, every other status is the same).
C37_RoutesEquivalent ==
  call.op = "joined"
  => /\ call.web.outcome = call.json.outcome
     /\ call.web.keystore = call.json.keystore
     /\ call.web.users = call.json.users
     /\ call.web.lastByKeyHash = call.json.lastByKeyHash
     /\ call.web.sessionUser = call.json.sessionUser
     /\ IF call.web.outcome \in {"success(relogin)", "success(created)"}
          THEN call.web.status = 302 /\ call.json.status = 200
        ELSE call.web.status = call.json.status

\* a registration that both routes answer success(created), after an
\* earlier request has left a binding and a profile behind
C37_Witness ==
  /\ call.op = "joined"
  /\ call.web.outcome = "success(created)"
  /\ call.json.outcome = "success(created)"
  /\ Cardinality(DOMAIN call.json.keystore.byUser) = 2
  /\ Len(call.web.users) = 2

====
